---- MODULE Spec2Model ----
(***************************************************************************)
(* Sprite One command/response protocol: the device side (MockDevice in    *)
(* tools/mock_device.py) as a state machine.  Bytes are 0..255, byte       *)
(* strings are sequences of bytes, and a 32-bit word is a record           *)
(* [hi, lo] of two 16-bit halves (value = hi * 65536 + lo).                *)
(***************************************************************************)
EXTENDS Integers, Sequences, FiniteSets, TLC

(***************************************************************************)
(* Byte and word arithmetic                                                *)
(***************************************************************************)
Byte == 0..255

RECURSIVE XorBits(_, _, _)
XorBits(a, b, n) ==
    IF n = 0 THEN 0
    ELSE ((a + b) % 2) + 2 * XorBits(a \div 2, b \div 2, n - 1)

\* a ^ b on bytes, tabulated once
XorByte == [a \in Byte |-> [b \in Byte |-> XorBits(a, b, 8)]]

Xor16(a, b) ==
    XorByte[a \div 256][b \div 256] * 256 + XorByte[a % 256][b % 256]

Word(hi, lo) == [hi |-> hi, lo |-> lo]

Xor32(v, w) == Word(Xor16(v.hi, w.hi), Xor16(v.lo, w.lo))

Shr1(w) == Word(w.hi \div 2, (w.lo \div 2) + (w.hi % 2) * 32768)

Shr8(w) == Word(w.hi \div 256, (w.lo \div 256) + (w.hi % 256) * 256)

\* w & 0xFFFFFFFF on a value already held in 32 bits
Mask32(w) == Word(w.hi % 65536, w.lo % 65536)

Zero32 == Word(0, 0)

AllOnes32 == Word(65535, 65535)

\* the reflected CRC-32 polynomial 0xEDB88320 of zlib
CrcPoly == Word(60856, 33568)

RECURSIVE CrcShift(_, _)
CrcShift(c, k) ==
    IF k = 0 THEN c
    ELSE CrcShift(IF c.lo % 2 = 1 THEN Xor32(CrcPoly, Shr1(c)) ELSE Shr1(c), k - 1)

CrcTable == [i \in Byte |-> CrcShift(Word(0, i), 8)]

\* the CRC register after the bytes of data, taken in order
RECURSIVE CrcBytes(_, _)
CrcBytes(c, data) ==
    IF data = <<>> THEN c
    ELSE CrcBytes(Xor32(CrcTable[XorByte[c.lo % 256][Head(data)]], Shr8(c)),
                  Tail(data))

\* the same over data[lo..hi] for strings of more than 8 bytes: the range is
\* halved, and the register after the first half is computed before the second
\* half is entered,
\* so that the evaluation does not nest deeply
RECURSIVE CrcRange(_, _, _, _)
CrcSecondHalf(c, data, lo, hi) ==
    IF c.lo < 0 THEN c ELSE CrcRange(c, data, lo, hi)

CrcRange(c, data, lo, hi) ==
    IF lo > hi THEN c
    ELSE IF lo = hi THEN Xor32(CrcTable[XorByte[c.lo % 256][data[lo]]], Shr8(c))
    ELSE CrcSecondHalf(CrcRange(c, data, lo, (lo + hi) \div 2), data,
                       (lo + hi) \div 2 + 1, hi)

CrcUpdate(c, data) ==
    IF Len(data) <= 8 THEN CrcBytes(c, data) ELSE CrcRange(c, data, 1, Len(data))

\* zlib.crc32(data, value): continue the checksum `value` over `data`
zlib_crc32(data, value) ==
    Xor32(CrcUpdate(Xor32(value, AllOnes32), data), AllOnes32)

calculate_crc32(data) == Mask32(zlib_crc32(data, Zero32))

\* struct.pack('<I', w)
pack_u32(w) == << w.lo % 256, w.lo \div 256, w.hi % 256, w.hi \div 256 >>

\* struct.unpack('<I', b)[0], b of 4 bytes
unpack_u32(b) == Word(b[3] + 256 * b[4], b[1] + 256 * b[2])


(***************************************************************************)
(* Protocol constants (mock_device.py, sprite_one.py)                      *)
(***************************************************************************)
HEADER == 170
RESP_OK == 0
RESP_ERROR == 1
RESP_NOT_FOUND == 2
RESP_BUSY == 3
CMD_VERSION == 15
CMD_CLEAR == 16
CMD_PIXEL == 17
CMD_RECT == 18
CMD_TEXT == 33
CMD_FLUSH == 47
CMD_AI_INFER == 80
CMD_AI_SAVE == 83
CMD_AI_LOAD == 84
CMD_AI_DELETE == 86
CMD_MODEL_INFO == 96
CMD_MODEL_SELECT == 98
CMD_MODEL_DELETE == 100
CMD_FINETUNE_START == 101
CMD_FINETUNE_STOP == 103
CMD_SENTINEL_STATUS == 128
CMD_SENTINEL_TRIGGER == 129
CMD_SENTINEL_LEARN == 130
CMD_MODEL_UPLOAD == 99
CMD_UPLOAD_CHUNK == 104
CMD_UPLOAD_END == 105
CMD_BATCH == 112
CMD_WHO_IS_THERE == 160
CMD_PING_ID == 161
CMD_BUFFER_WRITE == 162
CMD_BUFFER_SNAPSHOT == 163
CMD_BASELINE_CAPTURE == 164
CMD_BASELINE_RESET == 165
CMD_GET_DELTA == 166
CMD_CORRELATE == 167
\* opcodes with no entry in command_handlers: 0x77
UnknownOpcodes == { 119 }
BufferCapacity == 60
\* sprite_one.py
SPRITE_HEADER == 170
CMD_AI_TRAIN == 81
CMD_AI_STATUS == 82
CMD_FINETUNE_DATA == 102
\* mock_device.py
CMD_AI_LIST == 85
CMD_MODEL_LIST == 97

(***************************************************************************)
(* Python values: None, floats, byte strings                               *)
(***************************************************************************)
None == [none |-> TRUE]

RECURSIVE Gcd(_, _)
Gcd(a, b) == IF b = 0 THEN a ELSE Gcd(b, a % b)

Abs(x) == IF x < 0 THEN -x ELSE x

\* a finite float as the exact rational n/d in lowest terms, d > 0
Rat(n, d) ==
    LET g == Gcd(Abs(n), d)
    IN  IF n = 0 THEN [n |-> 0, d |-> 1] ELSE [n |-> n \div g, d |-> d \div g]

RECURSIVE Pow2(_)
Pow2(k) == IF k = 0 THEN 1 ELSE 2 * Pow2(k - 1)

RatAdd(x, y) == Rat(x.n * y.d + y.n * x.d, x.d * y.d)

RatDivInt(x, k) == Rat(x.n, x.d * k)

\* the sum of s[lo..hi], by halves so that the evaluation does not nest deeply
RECURSIVE SumRange(_, _, _)
SumRange(s, lo, hi) ==
    IF lo > hi THEN Rat(0, 1)
    ELSE IF lo = hi THEN s[lo]
    ELSE RatAdd(SumRange(s, lo, (lo + hi) \div 2), SumRange(s, (lo + hi) \div 2 + 1, hi))

\* sum(s) of floats whose partial sums are exact
SumRat(s) == SumRange(s, 1, Len(s))

RatSub(x, y) == Rat(x.n * y.d - y.n * x.d, x.d * y.d)

RatMul(x, y) == Rat(x.n * y.n, x.d * y.d)

\* x / y for y other than 0
RatDiv(x, y) == IF y.n < 0 THEN Rat(-(x.n * y.d), x.d * (-y.n)) ELSE Rat(x.n * y.d, x.d * y.n)

\* abs(x)
RatAbs(x) == [n |-> Abs(x.n), d |-> x.d]

RatLeq(x, y) == x.n * y.d <= y.n * x.d

\* the k with k * k = n, for n a perfect square
IntRoot(n) == CHOOSE k \in 0..n : k * k = n

\* x ** 0.5 for x the square of a rational, where the root is exact
RatRoot(x) == [n |-> IntRoot(x.n), d |-> IntRoot(x.d)]

\* struct.unpack('<f', b)[0], b of 4 bytes: IEEE 754 binary32, little-endian.
\* Finite values are decoded exactly (normal numbers with exponent fields
\* 120..150 and zero cover every sample the model writes).
unpack_f32(b) ==
    LET sign == b[4] \div 128
        exp  == (b[4] % 128) * 2 + b[3] \div 128
        man  == (b[3] % 128) * 65536 + b[2] * 256 + b[1]
        sig  == IF sign = 1 THEN -(8388608 + man) ELSE 8388608 + man
    IN  IF exp = 255 THEN [nonfinite |-> IF man = 0 THEN "inf" ELSE "nan", sign |-> sign]
        ELSE IF exp = 0 /\ man = 0 THEN Rat(0, 1)
        ELSE IF exp >= 150 THEN Rat(sig * Pow2(exp - 150), 1)
        ELSE LET RECURSIVE Halve(_, _)
                 Halve(n, k) == IF k > 0 /\ n % 2 = 0 THEN Halve(n \div 2, k - 1)
                                ELSE [n |-> n, d |-> Pow2(k)]
             IN  Halve(sig, 150 - exp)

\* math.isfinite(x)
isfinite(x) == "nonfinite" \notin DOMAIN x

RECURSIVE FloorLog2(_, _, _)
\* the e with 2^e <= a/d < 2^(e+1), searched upwards or downwards from e
FloorLog2(a, d, e) ==
    IF e >= 0 /\ a >= d * Pow2(e + 1) THEN FloorLog2(a, d, e + 1)
    ELSE IF e <= 0 /\ a * Pow2(-e) < d THEN FloorLog2(a, d, e - 1)
    ELSE e

\* the quotient and the remainder of a * 2^k by d, four doublings at a time so
\* that no intermediate value leaves the integers at hand
RECURSIVE ScaledDiv(_, _, _)
ScaledStep(p, d) == [q |-> 16 * p.q + (16 * p.r) \div d, r |-> (16 * p.r) % d]

ScaledDiv(a, d, k) ==
    IF k < 4 THEN [q |-> (a * Pow2(k)) \div d, r |-> (a * Pow2(k)) % d]
    ELSE ScaledStep(ScaledDiv(a, d, k - 4), d)

\* struct.pack('<f', x) of a finite float: round to nearest even on 24 bits
pack_f32(x) ==
    IF x.n = 0 THEN <<0, 0, 0, 0>>
    ELSE LET Fields(sign, exp, man) ==
                 << man % 256, (man \div 256) % 256,
                    (exp % 2) * 128 + man \div 65536, sign * 128 + exp \div 2 >>
             Significand(sign, e, sig) ==
                 Fields(sign, IF sig = 16777216 THEN e + 128 ELSE e + 127,
                        IF sig = 16777216 THEN 0 ELSE sig - 8388608)
             Rounded(sign, e, den, q, r) ==
                 Significand(sign, e,
                             IF 2 * r > den \/ (2 * r = den /\ q % 2 = 1) THEN q + 1 ELSE q)
             Quotient(sign, e, den, qr) == Rounded(sign, e, den, qr.q, qr.r)
             Scaled(sign, a, e, den) ==
                 Quotient(sign, e, den, ScaledDiv(a, den, IF e <= 23 THEN 23 - e ELSE 0))
             Exponent(sign, a, e) ==
                 Scaled(sign, a, e, IF e <= 23 THEN x.d ELSE x.d * Pow2(e - 23))
         IN  Exponent(IF x.n < 0 THEN 1 ELSE 0, Abs(x.n), FloorLog2(Abs(x.n), x.d, 0))

\* payload.decode('ascii', errors='ignore'): bytes above 127 are dropped
decode_ascii_ignore(b) == SelectSeq(b, LAMBDA c : c < 128)

RECURSIVE lstrip_nul(_)
lstrip_nul(s) == IF s # <<>> /\ Head(s) = 0 THEN lstrip_nul(Tail(s)) ELSE s

RECURSIVE rstrip_nul(_)
rstrip_nul(s) ==
    IF s # <<>> /\ s[Len(s)] = 0 THEN rstrip_nul(SubSeq(s, 1, Len(s) - 1)) ELSE s

\* s.strip('\x00')
strip_nul(s) == rstrip_nul(lstrip_nul(s))

\* data[i:j] of Python, 0-based, clipped to the string
Slice(s, i, j) == SubSeq(s, i + 1, IF j > Len(s) THEN Len(s) ELSE j)

(***************************************************************************)
(* MockDevice                                                              *)
(***************************************************************************)
ModelInfo(size) == [input |-> 2, output |-> 1, hidden |-> 8, size |-> size]

\* 'xor.aif32' and 'and.aif32'
InitialModels ==
    << [name |-> <<120, 111, 114, 46, 97, 105, 102, 51, 50>>, info |-> ModelInfo(192)],
       [name |-> <<97, 110, 100, 46, 97, 105, 102, 51, 50>>, info |-> ModelInfo(192)] >>

\* d[name] = info on a dict kept in insertion order
dict_set(d, name, info) ==
    IF \E i \in 1..Len(d) : d[i].name = name
    THEN [i \in 1..Len(d) |-> IF d[i].name = name THEN [name |-> name, info |-> info]
                              ELSE d[i]]
    ELSE Append(d, [name |-> name, info |-> info])

dict_keys(d) == {d[i].name : i \in 1..Len(d)}

\* os.urandom(8): the identities the model draws from
DeviceIds == { <<1, 2, 3, 4, 5, 6, 7, 8>> }

\* bytearray(128 * 64 // 8) as a fill byte and the bytes written over it, by
\* index
Framebuffer(fill) == [fill |-> fill, over |-> << >>]

\* 'xor.aif32'
XorModel == <<120, 111, 114, 46, 97, 105, 102, 51, 50>>

MockDevice(id) ==
    [ framebuffer     |-> Framebuffer(0),
      models          |-> InitialModels,
      upload_buffer   |-> << >>,
      upload_name     |-> << >>,
      is_uploading    |-> FALSE,
      upload_crc      |-> AllOnes32,
      device_id       |-> id,
      circular_buffer |-> << >>,
      baseline        |-> None,
      current_cmd     |-> 0,
      model_loaded    |-> TRUE,
      epochs_trained  |-> 0,
      last_loss       |-> Rat(1, 2),
      active_model    |-> XorModel,
      temp_c          |-> Rat(35, 1),
      freq_mhz        |-> 133,
      vector_mem_count |-> 1,
      uniform         |-> Rat(0, 1) ]

\* the result of a handler: the device afterwards and the response frame
Result(d, resp) == [dev |-> d, resp |-> resp]

\* mutant: the trailer is the CRC32 of the whole header, marker included
make_response_crc_with_marker(d, status, data) ==
    LET header == << HEADER, d.current_cmd, status, Len(data) >> \o data
    IN  header \o pack_u32(calculate_crc32(header))

\* an exception that leaves the handler, and process_packet, instead of a
\* response
Exception(name) == [exception |-> name]

\* bytearray([HEADER, cmd, status, len(data)]) raises ValueError for a length of
\* 256 or more
_make_response(d, status, data) ==
    LET header == << HEADER, d.current_cmd, status, Len(data) >> \o data
        crc    == calculate_crc32(Tail(header))
    IN  IF Len(data) > 255 THEN Exception("ValueError")
        ELSE header \o pack_u32(crc)

\* max(x, y) of two floats
RatMax(x, y) == IF x.n * y.d >= y.n * x.d THEN x ELSE y

\* struct.pack('<H', n), n in 0..65535
pack_u16(n) == << n % 256, n \div 256 >>

\* the float literal 0.001 is taken as 1/1000: it is only compared with powers
\* of two and packed to 32 bits, which the two do alike
_cmd_ai_train(d, payload) ==
    LET epochs == IF payload # <<>> THEN payload[1] ELSE 100
        loss   == RatMax(Rat(1, 1000), Rat(d.last_loss.n, d.last_loss.d * 2))
    IN  Result([d EXCEPT !.epochs_trained = @ + epochs,
                         !.last_loss = loss,
                         !.model_loaded = TRUE],
               _make_response(d, RESP_OK, pack_f32(loss)))

\* struct.pack('<BBHfHH', ...) raises struct.error when epochs_trained does not
\* fit 16 bits
_cmd_ai_status(d, payload) ==
    IF d.epochs_trained > 65535 THEN Result(d, Exception("struct.error"))
    ELSE Result(d, _make_response(d, RESP_OK,
                    << 0, IF d.model_loaded THEN 2 ELSE 0 >> \o pack_u16(d.epochs_trained)
                        \o pack_f32(d.last_loss) \o pack_u16(2) \o pack_u16(1)))

\* the length byte and the name of every model from position i on
RECURSIVE model_names(_, _)
model_names(models, i) ==
    IF i > Len(models) THEN << >>
    ELSE << Len(models[i].name) >> \o models[i].name \o model_names(models, i + 1)

_cmd_ai_list(d, payload) ==
    Result(d, _make_response(d, RESP_OK, model_names(d.models, 1) \o << 0 >>))

_cmd_version(d, payload) == Result(d, _make_response(d, RESP_OK, <<2, 2, 0>>))

_cmd_clear(d, payload) ==
    LET color == IF payload # <<>> THEN payload[1] ELSE 0
    IN  Result([d EXCEPT !.framebuffer = Framebuffer(IF color # 0 THEN 255 ELSE 0)],
               _make_response(d, RESP_OK, <<>>))

\* mutant: the running CRC32 starts from the all-ones state of the firmware
start_crc_all_ones(d, payload) ==
    LET name == strip_nul(decode_ascii_ignore(payload))
    IN  Result([d EXCEPT !.upload_name = name,
                         !.upload_buffer = << >>,
                         !.is_uploading = TRUE,
                         !.upload_crc = AllOnes32],
               _make_response(d, RESP_OK, <<>>))

_cmd_upload_start(d, payload) ==
    LET name == strip_nul(decode_ascii_ignore(payload))
    IN  Result([d EXCEPT !.upload_name = name,
                         !.upload_buffer = << >>,
                         !.is_uploading = TRUE,
                         !.upload_crc = Zero32],
               _make_response(d, RESP_OK, <<>>))

\* mutant: a chunk is put in front of the accumulated bytes
chunk_prepends(d, payload) ==
    IF ~d.is_uploading THEN Result(d, _make_response(d, RESP_ERROR, <<>>))
    ELSE Result([d EXCEPT !.upload_buffer = payload \o @,
                          !.upload_crc = zlib_crc32(payload, @)],
                _make_response(d, RESP_OK, <<>>))

\* mutant: a chunk is accumulated whether or not a session is active
chunk_without_session(d, payload) ==
    Result([d EXCEPT !.upload_buffer = @ \o payload,
                     !.upload_crc = zlib_crc32(payload, @)],
           _make_response(d, IF d.is_uploading THEN RESP_OK ELSE RESP_ERROR, <<>>))

_cmd_upload_chunk(d, payload) ==
    IF ~d.is_uploading THEN Result(d, _make_response(d, RESP_ERROR, <<>>))
    ELSE Result([d EXCEPT !.upload_buffer = @ \o payload,
                          !.upload_crc = zlib_crc32(payload, @)],
                _make_response(d, RESP_OK, <<>>))

\* mutant: an End too short to hold a CRC32 is refused before the session is cleared
end_short_keeps_session(d, payload) ==
    IF ~d.is_uploading \/ Len(payload) < 4
    THEN Result(d, _make_response(d, RESP_ERROR, <<>>))
    ELSE Result([d EXCEPT !.is_uploading = FALSE,
                          !.models = dict_set(@, d.upload_name,
                                              ModelInfo(Len(d.upload_buffer)))],
                _make_response(d, RESP_OK, <<>>))

_cmd_upload_end(d, payload) ==
    IF ~d.is_uploading THEN Result(d, _make_response(d, RESP_ERROR, <<>>))
    ELSE \* a CRC that differs from the expected one is printed and nothing else
         Result([d EXCEPT !.is_uploading = FALSE,
                          !.models = dict_set(@, d.upload_name,
                                              ModelInfo(Len(d.upload_buffer)))],
                _make_response(d, RESP_OK, <<>>))

_cmd_who_is_there(d, payload) == Result(d, _make_response(d, RESP_OK, d.device_id))

\* mutant: a write moves a captured baseline to the mean of the buffer
buffer_write_recomputes_baseline(d, payload) ==
    IF Len(payload) < 4 THEN Result(d, _make_response(d, RESP_ERROR, <<>>))
    ELSE LET sample   == unpack_f32(Slice(payload, 0, 4))
             appended == Append(d.circular_buffer, sample)
             kept     == IF Len(appended) > BufferCapacity THEN Tail(appended) ELSE appended
         IN  IF ~isfinite(sample) THEN Result(d, _make_response(d, RESP_ERROR, <<>>))
             ELSE Result([d EXCEPT !.circular_buffer = kept,
                                   !.baseline = IF @ = None THEN None
                                                ELSE RatDivInt(SumRat(kept), Len(kept))],
                         _make_response(d, RESP_OK, <<>>))

\* mutant: a full buffer drops the sample just written, not the oldest one
buffer_write_drops_newest(d, payload) ==
    IF Len(payload) < 4 THEN Result(d, _make_response(d, RESP_ERROR, <<>>))
    ELSE LET sample == unpack_f32(Slice(payload, 0, 4))
         IN  IF ~isfinite(sample) THEN Result(d, _make_response(d, RESP_ERROR, <<>>))
             ELSE Result([d EXCEPT !.circular_buffer =
                                     IF Len(@) >= BufferCapacity
                                     THEN @ ELSE Append(@, sample)],
                         _make_response(d, RESP_OK, <<>>))

\* mutant: the sample is appended without the test for NaN and infinity
buffer_write_accepts_nonfinite(d, payload) ==
    IF Len(payload) < 4 THEN Result(d, _make_response(d, RESP_ERROR, <<>>))
    ELSE LET sample   == unpack_f32(Slice(payload, 0, 4))
             appended == Append(d.circular_buffer, sample)
         IN  Result([d EXCEPT !.circular_buffer =
                                IF Len(appended) > BufferCapacity
                                THEN Tail(appended) ELSE appended],
                    _make_response(d, RESP_OK, <<>>))

_cmd_buffer_write(d, payload) ==
    IF Len(payload) < 4 THEN Result(d, _make_response(d, RESP_ERROR, <<>>))
    ELSE LET sample   == unpack_f32(Slice(payload, 0, 4))
             appended == Append(d.circular_buffer, sample)
         IN  IF ~isfinite(sample) THEN Result(d, _make_response(d, RESP_ERROR, <<>>))
             ELSE Result([d EXCEPT !.circular_buffer =
                                     IF Len(appended) > BufferCapacity
                                     THEN Tail(appended) ELSE appended],
                         _make_response(d, RESP_OK, <<>>))

\* mutant: the sum is divided by the capacity of the buffer, not by its length
baseline_capture_over_capacity(d, payload) ==
    IF d.circular_buffer = <<>> THEN Result(d, _make_response(d, RESP_ERROR, <<>>))
    ELSE LET mean == RatDivInt(SumRat(d.circular_buffer), BufferCapacity)
         IN  Result([d EXCEPT !.baseline = mean],
                    _make_response(d, RESP_OK, pack_f32(mean)))

\* mutant: the baseline is kept as the 32-bit float that is returned
baseline_capture_stores_float32(d, payload) ==
    IF d.circular_buffer = <<>> THEN Result(d, _make_response(d, RESP_ERROR, <<>>))
    ELSE LET mean == RatDivInt(SumRat(d.circular_buffer), Len(d.circular_buffer))
         IN  Result([d EXCEPT !.baseline = unpack_f32(pack_f32(mean))],
                    _make_response(d, RESP_OK, pack_f32(mean)))

_cmd_baseline_capture(d, payload) ==
    IF d.circular_buffer = <<>> THEN Result(d, _make_response(d, RESP_ERROR, <<>>))
    ELSE LET mean == RatDivInt(SumRat(d.circular_buffer), Len(d.circular_buffer))
         IN  Result([d EXCEPT !.baseline = mean],
                    _make_response(d, RESP_OK, pack_f32(mean)))

\* mutant: the baseline is reset to 0.0
baseline_reset_to_zero(d, payload) ==
    Result([d EXCEPT !.baseline = Rat(0, 1)], _make_response(d, RESP_OK, <<>>))

_cmd_baseline_reset(d, payload) ==
    Result([d EXCEPT !.baseline = None], _make_response(d, RESP_OK, <<>>))

\* mutant: a failed identity check is answered with the identity as data
ping_id_error_carries_identity(d, payload) ==
    IF Len(payload) >= 8 /\ Slice(payload, 0, 8) = d.device_id
    THEN Result(d, _make_response(d, RESP_OK, <<>>))
    ELSE Result(d, _make_response(d, RESP_ERROR, d.device_id))

_cmd_ping_id(d, payload) ==
    IF Len(payload) >= 8 /\ Slice(payload, 0, 8) = d.device_id
    THEN Result(d, _make_response(d, RESP_OK, <<>>))
    ELSE Result(d, _make_response(d, RESP_ERROR, <<>>))

\* struct.pack('<Nf', *samples)
RECURSIVE PackRange(_, _, _)
PackRange(samples, lo, hi) ==
    IF lo > hi THEN << >>
    ELSE IF lo = hi THEN pack_f32(samples[lo])
    ELSE PackRange(samples, lo, (lo + hi) \div 2)
             \o PackRange(samples, (lo + hi) \div 2 + 1, hi)

pack_floats(samples) == PackRange(samples, 1, Len(samples))

RECURSIVE Reverse(_)
Reverse(q) == IF q = <<>> THEN <<>> ELSE Append(Reverse(Tail(q)), Head(q))

\* mutant: the samples are returned newest first
snapshot_newest_first(d, payload) ==
    IF d.circular_buffer = <<>> THEN Result(d, _make_response(d, RESP_OK, <<>>))
    ELSE Result(d, _make_response(d, RESP_OK, pack_floats(Reverse(d.circular_buffer))))

\* mutant: a snapshot hands the samples over and empties the buffer
snapshot_drains_buffer(d, payload) ==
    IF d.circular_buffer = <<>> THEN Result(d, _make_response(d, RESP_OK, <<>>))
    ELSE Result([d EXCEPT !.circular_buffer = << >>],
                _make_response(d, RESP_OK, pack_floats(d.circular_buffer)))

_cmd_buffer_snapshot(d, payload) ==
    IF d.circular_buffer = <<>> THEN Result(d, _make_response(d, RESP_OK, <<>>))
    ELSE Result(d, _make_response(d, RESP_OK, pack_floats(d.circular_buffer)))

_cmd_get_delta(d, payload) ==
    IF d.baseline = None \/ d.circular_buffer = <<>>
    THEN Result(d, _make_response(d, RESP_ERROR, <<>>))
    ELSE LET live_mean == RatDivInt(SumRat(d.circular_buffer), Len(d.circular_buffer))
             delta     == RatAbs(RatSub(live_mean, d.baseline))
         IN  Result(d, _make_response(d, RESP_OK, pack_f32(delta)))

\* sum(x[i] * y[i] for i in range(n)), x and y of n elements
SumProducts(x, y) == SumRat([i \in DOMAIN x |-> RatMul(x[i], y[i])])

\* mutant: the quotient is taken whatever the denominator is
corr_without_zero_check(a, b) ==
    LET Clamp(half) ==
            IF RatLeq(half, Rat(0, 1)) THEN Rat(0, 1)
            ELSE IF RatLeq(Rat(1, 1), half) THEN Rat(1, 1)
            ELSE half
        Score(num, denom) ==
            IF denom.n = 0 THEN Exception("ZeroDivisionError")
            ELSE Clamp(RatDivInt(RatAdd(RatDiv(num, denom), Rat(1, 1)), 2))
        Sums(ca, cb) ==
            Score(SumProducts(ca, cb),
                  RatRoot(RatMul(SumProducts(ca, ca), SumProducts(cb, cb))))
        Centred(n, mean_a, mean_b) ==
            Sums([i \in 1..n |-> RatSub(a[i], mean_a)],
                 [i \in 1..n |-> RatSub(b[i], mean_b)])
        Window(n) ==
            IF n = 0 THEN Rat(0, 1)
            ELSE IF \E i \in 1..n : ~isfinite(b[i]) THEN Rat(1, 1)
            ELSE Centred(n, RatDivInt(SumRat(SubSeq(a, 1, n)), n),
                         RatDivInt(SumRat(SubSeq(b, 1, n)), n))
    IN  Window(IF Len(a) <= Len(b) THEN Len(a) ELSE Len(b))

\* mutant: the score is taken from the magnitude of r
corr_of_magnitude(a, b) ==
    LET Clamp(half) ==
            IF RatLeq(half, Rat(0, 1)) THEN Rat(0, 1)
            ELSE IF RatLeq(Rat(1, 1), half) THEN Rat(1, 1)
            ELSE half
        Score(num, denom) ==
            IF denom.n = 0 THEN Rat(1, 1)
            ELSE Clamp(RatDivInt(RatAdd(RatAbs(RatDiv(num, denom)), Rat(1, 1)), 2))
        Sums(ca, cb) ==
            Score(SumProducts(ca, cb),
                  RatRoot(RatMul(SumProducts(ca, ca), SumProducts(cb, cb))))
        Centred(n, mean_a, mean_b) ==
            Sums([i \in 1..n |-> RatSub(a[i], mean_a)],
                 [i \in 1..n |-> RatSub(b[i], mean_b)])
        Window(n) ==
            IF n = 0 THEN Rat(0, 1)
            ELSE IF \E i \in 1..n : ~isfinite(b[i]) THEN Rat(1, 1)
            ELSE Centred(n, RatDivInt(SumRat(SubSeq(a, 1, n)), n),
                         RatDivInt(SumRat(SubSeq(b, 1, n)), n))
    IN  Window(IF Len(a) <= Len(b) THEN Len(a) ELSE Len(b))

\* _normalized_cross_corr(a, b), a of finite floats, over the first
\* n = min(len(a), len(b)) elements: num, da * db and denom as in the code. A NaN
\* or an infinity among b[:n] makes mean_b, db, num, denom and r NaN: denom == 0
\* is false and max(0.0, min(1.0, nan)) is 1.0. The root is exact for the
\* sequences the model correlates.
_normalized_cross_corr(a, b) ==
    LET Clamp(half) ==
            IF RatLeq(half, Rat(0, 1)) THEN Rat(0, 1)
            ELSE IF RatLeq(Rat(1, 1), half) THEN Rat(1, 1)
            ELSE half
        Score(num, denom) ==
            IF denom.n = 0 THEN Rat(1, 1)
            ELSE Clamp(RatDivInt(RatAdd(RatDiv(num, denom), Rat(1, 1)), 2))
        Sums(ca, cb) ==
            Score(SumProducts(ca, cb),
                  RatRoot(RatMul(SumProducts(ca, ca), SumProducts(cb, cb))))
        Centred(n, mean_a, mean_b) ==
            Sums([i \in 1..n |-> RatSub(a[i], mean_a)],
                 [i \in 1..n |-> RatSub(b[i], mean_b)])
        Window(n) ==
            IF n = 0 THEN Rat(0, 1)
            ELSE IF \E i \in 1..n : ~isfinite(b[i]) THEN Rat(1, 1)
            ELSE Centred(n, RatDivInt(SumRat(SubSeq(a, 1, n)), n),
                         RatDivInt(SumRat(SubSeq(b, 1, n)), n))
    IN  Window(IF Len(a) <= Len(b) THEN Len(a) ELSE Len(b))

\* mutant: an empty buffer is correlated like any other
correlate_without_buffer_check(d, payload) ==
    IF Len(payload) < 4
    THEN Result(d, _make_response(d, RESP_ERROR, <<>>))
    ELSE LET n_ref == Len(payload) \div 4
             ref   == [i \in 1..n_ref |-> unpack_f32(Slice(payload, 4 * (i - 1), 4 * i))]
             score == _normalized_cross_corr(d.circular_buffer, ref)
         IN  IF "exception" \in DOMAIN score THEN Result(d, score)
             ELSE Result(d, _make_response(d, RESP_OK, pack_f32(score)))

_cmd_correlate(d, payload) ==
    IF Len(payload) < 4 \/ d.circular_buffer = <<>>
    THEN Result(d, _make_response(d, RESP_ERROR, <<>>))
    ELSE LET n_ref == Len(payload) \div 4
             ref   == [i \in 1..n_ref |-> unpack_f32(Slice(payload, 4 * (i - 1), 4 * i))]
             score == _normalized_cross_corr(d.circular_buffer, ref)
         IN  IF "exception" \in DOMAIN score THEN Result(d, score)
             ELSE Result(d, _make_response(d, RESP_OK, pack_f32(score)))

\* framebuffer[i]
fb_get(fb, i) == IF i \in DOMAIN fb.over THEN fb.over[i] ELSE fb.fill

\* framebuffer[i] = b
fb_set(fb, i, b) ==
    [fb EXCEPT !.over = [k \in (DOMAIN fb.over) \cup {i} |-> IF k = i THEN b ELSE fb.over[k]]]

\* b | (1 << bit) when on, b & ~(1 << bit) otherwise
with_bit(b, bit, on) ==
    LET isset == (b \div Pow2(bit)) % 2 = 1
    IN  IF on THEN (IF isset THEN b ELSE b + Pow2(bit))
        ELSE (IF isset THEN b - Pow2(bit) ELSE b)

_cmd_pixel(d, payload) ==
    IF Len(payload) >= 3 /\ payload[1] < 128 /\ payload[2] < 64
    THEN LET byte_idx == payload[1] + (payload[2] \div 8) * 128
             bit      == payload[2] % 8
         IN  Result([d EXCEPT !.framebuffer =
                        fb_set(@, byte_idx, with_bit(fb_get(@, byte_idx), bit, payload[3] # 0))],
                    _make_response(d, RESP_OK, <<>>))
    ELSE Result(d, _make_response(d, RESP_OK, <<>>))

_cmd_rect(d, payload) == Result(d, _make_response(d, RESP_OK, <<>>))

_cmd_text(d, payload) == Result(d, _make_response(d, RESP_OK, <<>>))

\* the count of lit pixels is only printed
_cmd_flush(d, payload) == Result(d, _make_response(d, RESP_OK, <<>>))

\* x > 0.5 for a float x: false for NaN, true for +inf only among the infinities
above_half(x) ==
    IF isfinite(x) THEN ~RatLeq(x, Rat(1, 2))
    ELSE x.nonfinite = "inf" /\ x.sign = 0

\* d.uniform is what random.uniform(-0.02, 0.02) returns in this call
_cmd_ai_infer(d, payload) ==
    IF Len(payload) >= 8
    THEN LET in0      == unpack_f32(Slice(payload, 0, 4))
             in1      == unpack_f32(Slice(payload, 4, 8))
             expected == IF above_half(in0) # above_half(in1) THEN Rat(1, 1) ELSE Rat(0, 1)
             noisy    == RatAdd(expected, d.uniform)
             capped   == IF RatLeq(Rat(1, 1), noisy) THEN Rat(1, 1) ELSE noisy
             result   == IF RatLeq(capped, Rat(0, 1)) THEN Rat(0, 1) ELSE capped
         IN  Result(d, _make_response(d, RESP_OK, pack_f32(result)))
    ELSE Result(d, _make_response(d, RESP_ERROR, <<>>))

_cmd_ai_save(d, payload) == Result(d, _make_response(d, RESP_OK, <<>>))

_cmd_ai_load(d, payload) == Result(d, _make_response(d, RESP_OK, <<>>))

_cmd_ai_delete(d, payload) == Result(d, _make_response(d, RESP_OK, <<>>))

\* self.models[name], name a key
dict_get(models, name) == (CHOOSE i \in 1..Len(models) : models[i].name = name)

\* bytearray(32) with 'SPRT' packed at 0, the dimensions at 6..8 and the first
\* 16 bytes of the name at 16
_cmd_model_info(d, payload) ==
    IF d.active_model = << >> \/ d.active_model \notin dict_keys(d.models)
    THEN Result(d, _make_response(d, RESP_NOT_FOUND, <<>>))
    ELSE LET m          == d.models[dict_get(d.models, d.active_model)].info
             name_bytes == Slice(d.active_model, 0, 16)
             data       == << 83, 80, 82, 84, 0, 0, m.input, m.output, m.hidden,
                              0, 0, 0, 0, 0, 0, 0 >>
                           \o name_bytes \o [k \in 1..(16 - Len(name_bytes)) |-> 0]
         IN  Result(d, _make_response(d, RESP_OK, data))

_cmd_model_select(d, payload) == Result(d, _make_response(d, RESP_OK, <<>>))

\* struct.pack('<fII', temp_c, freq_mhz, vector_mem_count)
_cmd_sentinel_status(d, payload) ==
    Result(d, _make_response(d, RESP_OK,
               pack_f32(d.temp_c) \o pack_u32(Word(0, d.freq_mhz))
                   \o pack_u32(Word(0, d.vector_mem_count))))

_cmd_sentinel_trigger(d, payload) == Result(d, _make_response(d, RESP_OK, <<>>))

_cmd_sentinel_learn(d, payload) == Result(d, _make_response(d, RESP_OK, <<>>))

\* the float literal 0.98 is taken as 49/50, as 0.001 is taken as 1/1000
_cmd_finetune_data(d, payload) ==
    IF Len(payload) >= 12
    THEN LET loss == RatMax(Rat(1, 1000), RatMul(d.last_loss, Rat(49, 50)))
         IN  Result([d EXCEPT !.last_loss = loss, !.epochs_trained = @ + 1],
                    _make_response(d, RESP_OK, pack_f32(loss)))
    ELSE Result(d, _make_response(d, RESP_ERROR, <<>>))

_cmd_ack(d, payload) == Result(d, _make_response(d, RESP_OK, <<>>))

_cmd_batch(d, payload) == Result(d, _make_response(d, RESP_OK, <<>>))

\* command_handlers.get(cmd): the handlers by opcode
command_handlers ==
    [ c \in { CMD_VERSION, CMD_CLEAR, CMD_PIXEL, CMD_RECT, CMD_TEXT, CMD_FLUSH,
              CMD_AI_INFER, CMD_AI_TRAIN, CMD_AI_STATUS, CMD_AI_SAVE, CMD_AI_LOAD,
              CMD_AI_LIST, CMD_AI_DELETE, CMD_MODEL_INFO, CMD_MODEL_LIST,
              CMD_MODEL_SELECT, CMD_MODEL_UPLOAD, CMD_UPLOAD_CHUNK, CMD_UPLOAD_END,
              CMD_MODEL_DELETE, CMD_FINETUNE_START, CMD_FINETUNE_DATA,
              CMD_FINETUNE_STOP, CMD_BATCH, CMD_SENTINEL_STATUS,
              CMD_SENTINEL_TRIGGER, CMD_SENTINEL_LEARN, CMD_WHO_IS_THERE,
              CMD_PING_ID, CMD_BUFFER_WRITE, CMD_BUFFER_SNAPSHOT,
              CMD_BASELINE_CAPTURE, CMD_BASELINE_RESET, CMD_GET_DELTA,
              CMD_CORRELATE } |->
        CASE c = CMD_VERSION          -> "_cmd_version"
          [] c = CMD_PIXEL            -> "_cmd_pixel"
          [] c = CMD_RECT             -> "_cmd_rect"
          [] c = CMD_TEXT             -> "_cmd_text"
          [] c = CMD_FLUSH            -> "_cmd_flush"
          [] c = CMD_AI_INFER         -> "_cmd_ai_infer"
          [] c = CMD_AI_SAVE          -> "_cmd_ai_save"
          [] c = CMD_AI_LOAD          -> "_cmd_ai_load"
          [] c = CMD_AI_DELETE        -> "_cmd_ai_delete"
          [] c = CMD_MODEL_INFO       -> "_cmd_model_info"
          [] c = CMD_MODEL_SELECT     -> "_cmd_model_select"
          [] c = CMD_MODEL_DELETE     -> "_cmd_ai_delete"
          [] c = CMD_FINETUNE_START   -> "_cmd_ack"
          [] c = CMD_FINETUNE_DATA    -> "_cmd_finetune_data"
          [] c = CMD_FINETUNE_STOP    -> "_cmd_ack"
          [] c = CMD_SENTINEL_STATUS  -> "_cmd_sentinel_status"
          [] c = CMD_SENTINEL_TRIGGER -> "_cmd_sentinel_trigger"
          [] c = CMD_SENTINEL_LEARN   -> "_cmd_sentinel_learn"
          [] c = CMD_AI_TRAIN         -> "_cmd_ai_train"
          [] c = CMD_AI_STATUS        -> "_cmd_ai_status"
          [] c = CMD_AI_LIST          -> "_cmd_ai_list"
          [] c = CMD_MODEL_LIST       -> "_cmd_ai_list"
          [] c = CMD_CLEAR            -> "_cmd_clear"
          [] c = CMD_MODEL_UPLOAD     -> "_cmd_upload_start"
          [] c = CMD_UPLOAD_CHUNK     -> "_cmd_upload_chunk"
          [] c = CMD_UPLOAD_END       -> "_cmd_upload_end"
          [] c = CMD_BATCH            -> "_cmd_batch"
          [] c = CMD_WHO_IS_THERE     -> "_cmd_who_is_there"
          [] c = CMD_PING_ID          -> "_cmd_ping_id"
          [] c = CMD_BUFFER_SNAPSHOT  -> "_cmd_buffer_snapshot"
          [] c = CMD_GET_DELTA        -> "_cmd_get_delta"
          [] c = CMD_CORRELATE        -> "_cmd_correlate"
          [] c = CMD_BUFFER_WRITE     -> "_cmd_buffer_write"
          [] c = CMD_BASELINE_CAPTURE -> "_cmd_baseline_capture"
          [] c = CMD_BASELINE_RESET   -> "_cmd_baseline_reset" ]

\* handler(payload) for the handler of that name
Invoke(h, d, payload) ==
    CASE h = "_cmd_version"          -> _cmd_version(d, payload)
      [] h = "_cmd_pixel"            -> _cmd_pixel(d, payload)
      [] h = "_cmd_rect"             -> _cmd_rect(d, payload)
      [] h = "_cmd_text"             -> _cmd_text(d, payload)
      [] h = "_cmd_flush"            -> _cmd_flush(d, payload)
      [] h = "_cmd_ai_infer"         -> _cmd_ai_infer(d, payload)
      [] h = "_cmd_ai_save"          -> _cmd_ai_save(d, payload)
      [] h = "_cmd_ai_load"          -> _cmd_ai_load(d, payload)
      [] h = "_cmd_ai_delete"        -> _cmd_ai_delete(d, payload)
      [] h = "_cmd_model_info"       -> _cmd_model_info(d, payload)
      [] h = "_cmd_model_select"     -> _cmd_model_select(d, payload)
      [] h = "_cmd_ack"              -> _cmd_ack(d, payload)
      [] h = "_cmd_finetune_data"    -> _cmd_finetune_data(d, payload)
      [] h = "_cmd_sentinel_status"  -> _cmd_sentinel_status(d, payload)
      [] h = "_cmd_sentinel_trigger" -> _cmd_sentinel_trigger(d, payload)
      [] h = "_cmd_sentinel_learn"   -> _cmd_sentinel_learn(d, payload)
      [] h = "_cmd_ai_train"         -> _cmd_ai_train(d, payload)
      [] h = "_cmd_ai_status"        -> _cmd_ai_status(d, payload)
      [] h = "_cmd_ai_list"          -> _cmd_ai_list(d, payload)
      [] h = "_cmd_clear"            -> _cmd_clear(d, payload)
      [] h = "_cmd_upload_start"     -> _cmd_upload_start(d, payload)
      [] h = "_cmd_upload_chunk"     -> _cmd_upload_chunk(d, payload)
      [] h = "_cmd_upload_end"       -> _cmd_upload_end(d, payload)
      [] h = "_cmd_batch"            -> _cmd_batch(d, payload)
      [] h = "_cmd_who_is_there"     -> _cmd_who_is_there(d, payload)
      [] h = "_cmd_ping_id"          -> _cmd_ping_id(d, payload)
      [] h = "_cmd_buffer_snapshot"  -> _cmd_buffer_snapshot(d, payload)
      [] h = "_cmd_get_delta"        -> _cmd_get_delta(d, payload)
      [] h = "_cmd_correlate"        -> _cmd_correlate(d, payload)
      [] h = "_cmd_buffer_write"     -> _cmd_buffer_write(d, payload)
      [] h = "_cmd_baseline_capture" -> _cmd_baseline_capture(d, payload)
      [] h = "_cmd_baseline_reset"   -> _cmd_baseline_reset(d, payload)

\* one call of process_packet: the request, the handler it invoked ("" when none),
\* the device afterwards and the response returned
Call(data, h, r) == [request |-> data, handler |-> h, dev |-> r.dev, response |-> r.resp]

\* mutant: the trailer is never compared
crc_never_checked(data, length) == FALSE

\* received_crc != calculated_crc
CrcMismatch(data, length) ==
    unpack_u32(Slice(data, 3 + length, 3 + length + 4))
        # calculate_crc32(Slice(data, 1, 3 + length))

\* mutant: a packet shorter than its declared length is dispatched with the
\* payload bytes that are there, the trailer being checked only when present
dispatch_incomplete(d, data) ==
    IF Len(data) < 7 \/ data[1] # HEADER
    THEN Call(data, "", Result(d, _make_response(d, RESP_ERROR, <<>>)))
    ELSE LET cmd     == data[2]
             length  == data[3]
             d1      == [d EXCEPT !.current_cmd = cmd]
             payload == Slice(data, 3, 3 + length)
         IN  IF Len(data) >= 3 + length + 4 /\ CrcMismatch(data, length)
             THEN Call(data, "", Result(d1, _make_response(d1, RESP_ERROR, <<>>)))
             ELSE IF cmd \in DOMAIN command_handlers
             THEN Call(data, command_handlers[cmd],
                       Invoke(command_handlers[cmd], d1, payload))
             ELSE Call(data, "", Result(d1, _make_response(d1, RESP_ERROR, <<>>)))

\* mutant: a request with an unknown opcode ends the upload session
unknown_opcode_ends_upload(d, data) ==
    IF Len(data) < 7 \/ data[1] # HEADER
    THEN Call(data, "", Result(d, _make_response(d, RESP_ERROR, <<>>)))
    ELSE LET cmd     == data[2]
             length  == data[3]
             d1      == [d EXCEPT !.current_cmd = cmd]
             payload == Slice(data, 3, 3 + length)
         IN  IF Len(data) < 3 + length + 4
             THEN Call(data, "", Result(d, _make_response(d, RESP_ERROR, <<>>)))
             ELSE IF CrcMismatch(data, length)
             THEN Call(data, "", Result(d1, _make_response(d1, RESP_ERROR, <<>>)))
             ELSE IF cmd \in DOMAIN command_handlers
             THEN Call(data, command_handlers[cmd],
                       Invoke(command_handlers[cmd], d1, payload))
             ELSE Call(data, "", Result([d1 EXCEPT !.is_uploading = FALSE],
                                        _make_response(d1, RESP_ERROR, <<>>)))

process_packet(d, data) ==
    IF Len(data) < 7 \/ data[1] # HEADER
    THEN Call(data, "", Result(d, _make_response(d, RESP_ERROR, <<>>)))
    ELSE LET cmd     == data[2]
             length  == data[3]
             d1      == [d EXCEPT !.current_cmd = cmd]
             payload == Slice(data, 3, 3 + length)
         IN  IF Len(data) < 3 + length + 4
             THEN Call(data, "", Result(d, _make_response(d, RESP_ERROR, <<>>)))
             ELSE IF CrcMismatch(data, length)
             THEN Call(data, "", Result(d1, _make_response(d1, RESP_ERROR, <<>>)))
             ELSE IF cmd \in DOMAIN command_handlers
             THEN Call(data, command_handlers[cmd],
                       Invoke(command_handlers[cmd], d1, payload))
             ELSE Call(data, "", Result(d1, _make_response(d1, RESP_ERROR, <<>>)))

\* make_packet of the loopback tests: AA CMD LEN PAYLOAD CRC32(CMD LEN PAYLOAD)
make_packet(cmd, payload) ==
    LET data == << HEADER, cmd, Len(payload) >> \o payload
    IN  data \o pack_u32(calculate_crc32(Tail(data)))

\* run_serial_server, one pass of the inner while loop and what follows it:
\* complete packets at the head of the receive buffer are processed in order, then
\* a buffer that does not start with the marker is cleared.  An exception of
\* process_packet is caught nowhere: it leaves the loop with the packet taken
\* off the buffer and nothing written
RECURSIVE ServePackets(_, _, _)
\* after the call c of process_packet on the packet at the head, the buffer cut
\* to the bytes behind it
ServeNext(c, buffer, served) ==
    IF DOMAIN c.response = {"exception"}
    THEN [ dev |-> c.dev, buffer |-> buffer, calls |-> Append(served, c) ]
    ELSE ServePackets(c.dev, buffer, Append(served, c))

ServePackets(d, buffer, served) ==
    IF Len(buffer) >= 3 /\ buffer[1] = HEADER /\ Len(buffer) >= 3 + buffer[3] + 4
    THEN ServeNext(process_packet(d, SubSeq(buffer, 1, 3 + buffer[3] + 4)),
                   SubSeq(buffer, 3 + buffer[3] + 4 + 1, Len(buffer)), served)
    ELSE [ dev    |-> d,
           buffer |-> IF buffer # <<>> /\ buffer[1] # HEADER THEN << >> ELSE buffer,
           calls  |-> served ]

\* the responses of a run of calls, as written to the port: a call that raised
\* wrote nothing
RECURSIVE Responses(_)
Responses(cs) ==
    IF cs = <<>> THEN <<>>
    ELSE IF DOMAIN Head(cs).response = {"exception"} THEN Responses(Tail(cs))
    ELSE <<Head(cs).response>> \o Responses(Tail(cs))

\* the server has left its loop: the last call of its last pass raised
ServerStopped(served) ==
    /\ served # <<>>
    /\ DOMAIN served[Len(served)].response = {"exception"}

(***************************************************************************)
(* SpriteOne, the host library (sprite_one.py)                             *)
(***************************************************************************)
\* sum(data), by halves
RECURSIVE SumByteRange(_, _, _)
SumByteRange(b, lo, hi) ==
    IF lo > hi THEN 0
    ELSE IF lo = hi THEN b[lo]
    ELSE SumByteRange(b, lo, (lo + hi) \div 2) + SumByteRange(b, (lo + hi) \div 2 + 1, hi)

SumBytes(b) == SumByteRange(b, 1, Len(b))

\* mutant: the one's complement of the sum
checksum_ones_complement(data) == 255 - (SumBytes(data) % 256)

\* SpriteOne._checksum: (~sum(data) + 1) & 0xFF
_checksum(data) == (256 - (SumBytes(data) % 256)) % 256

\* the packet _send_command builds and writes; bytes([SPRITE_HEADER, cmd,
\* len(payload)]) raises ValueError for a payload of 256 bytes or more
send_command_packet(cmd, payload) ==
    IF Len(payload) > 255 THEN Exception("ValueError")
    ELSE << SPRITE_HEADER, cmd, Len(payload) >> \o payload \o << _checksum(payload) >>

\* the outcome of a call: raised is the message of the SpriteOneError raised, or
\* "" when the call returned; a call that raised has no status and no data, which
\* the record shows as -1 and no bytes
Raised(msg, rest) ==
    [raised |-> msg, resp_cmd |-> -1, status |-> -1, data |-> << >>, rest |-> rest]

Returned(resp_cmd, status, data, rest) ==
    [raised |-> "", resp_cmd |-> resp_cmd, status |-> status, data |-> data, rest |-> rest]

\* mutant: the trailer is read and not compared
read_without_crc_check(rx) ==
    LET header == Slice(rx, 0, 4)
    IN  IF Len(header) < 4 THEN Raised("Timeout waiting for response", << >>)
        ELSE IF header[1] # SPRITE_HEADER
        THEN Raised("Invalid response header", Slice(rx, 4, Len(rx)))
        ELSE LET resp_len  == header[4]
                 resp_data == Slice(rx, 4, 4 + resp_len)
                 trailer   == Slice(rx, 4 + resp_len, 8 + resp_len)
             IN  IF Len(resp_data) < resp_len
                 THEN Raised("Incomplete response data", << >>)
                 ELSE IF Len(trailer) < 4
                 THEN Raised("Missing CRC32 trailer in response", << >>)
                 ELSE Returned(header[2], header[3], resp_data,
                               Slice(rx, 8 + resp_len, Len(rx)))

\* _send_command after its write, on a port whose input holds the bytes rx: each
\* ser.read(n) takes the first n bytes, or all of them when fewer are there by
\* the timeout.  rest is what the port still holds afterwards.
send_command_read(rx) ==
    LET header == Slice(rx, 0, 4)
    IN  IF Len(header) < 4 THEN Raised("Timeout waiting for response", << >>)
        ELSE IF header[1] # SPRITE_HEADER
        THEN Raised("Invalid response header", Slice(rx, 4, Len(rx)))
        ELSE LET resp_len  == header[4]
                 resp_data == Slice(rx, 4, 4 + resp_len)
                 trailer   == Slice(rx, 4 + resp_len, 8 + resp_len)
             IN  IF Len(resp_data) < resp_len
                 THEN Raised("Incomplete response data", << >>)
                 ELSE IF Len(trailer) < 4
                 THEN Raised("Missing CRC32 trailer in response", << >>)
                 ELSE IF Mask32(zlib_crc32(Slice(header, 1, 4) \o resp_data, Zero32))
                             # unpack_u32(trailer)
                 THEN Raised("CRC mismatch!", Slice(rx, 8 + resp_len, Len(rx)))
                 ELSE Returned(header[2], header[3], resp_data,
                               Slice(rx, 8 + resp_len, Len(rx)))

\* struct.unpack('<H', b)[0]
unpack_u16(b) == b[1] + 256 * b[2]

\* the value of an API method: raised as above, value what the method returned
Fails(msg) == [raised |-> msg, value |-> None]

Gives(v) == [raised |-> "", value |-> v]

\* the API methods modelled, with their opcode and a payload
ApiMethods ==
    { [name |-> "get_version",   cmd |-> CMD_VERSION,       payload |-> << >>],
      [name |-> "ai_train",      cmd |-> CMD_AI_TRAIN,      payload |-> << 100 >>],
      [name |-> "ai_status",     cmd |-> CMD_AI_STATUS,     payload |-> << >>],
      [name |-> "finetune_data", cmd |-> CMD_FINETUNE_DATA,
       payload |-> pack_f32(Rat(1, 1)) \o pack_f32(Rat(0, 1)) \o pack_f32(Rat(1, 1))] }

get_version(r) ==
    IF r.raised # "" THEN Fails(r.raised)
    ELSE IF r.status # RESP_OK \/ Len(r.data) < 3 THEN Fails("Version command failed")
    ELSE Gives(<< r.data[1], r.data[2], r.data[3] >>)

ai_train(r) ==
    IF r.raised # "" THEN Fails(r.raised)
    ELSE IF r.status # RESP_OK THEN Fails("Training failed")
    ELSE IF Len(r.data) >= 4 THEN Gives(unpack_f32(Slice(r.data, 0, 4)))
    ELSE Gives(Rat(0, 1))

ai_status(r) ==
    IF r.raised # "" THEN Fails(r.raised)
    ELSE IF r.status # RESP_OK THEN Fails("Status command failed")
    ELSE IF Len(r.data) < 8 THEN Gives(<< >>)
    ELSE LET loaded_type == r.data[2]
             result == [ state        |-> r.data[1],
                         model_loaded |-> loaded_type > 0,
                         model_type   |-> IF loaded_type = 2 THEN "Dynamic"
                                          ELSE IF loaded_type = 1 THEN "Static" ELSE "None",
                         epochs       |-> unpack_u16(Slice(r.data, 2, 4)),
                         last_loss    |-> unpack_f32(Slice(r.data, 4, 8)) ]
         IN  IF Len(r.data) >= 12
             THEN Gives([ k \in DOMAIN result \cup {"input_dim", "output_dim"} |->
                            IF k = "input_dim" THEN unpack_u16(Slice(r.data, 8, 10))
                            ELSE IF k = "output_dim" THEN unpack_u16(Slice(r.data, 10, 12))
                            ELSE result[k] ])
             ELSE Gives(result)

finetune_data(r) ==
    IF r.raised # "" THEN Fails(r.raised)
    ELSE IF r.status # RESP_OK THEN Fails("Finetune data failed")
    ELSE IF Len(r.data) >= 4 THEN Gives(unpack_f32(Slice(r.data, 0, 4)))
    ELSE Gives(Rat(0, 1))

\* the method applied to what _send_command came back with
ApiResult(name, r) ==
    CASE name = "get_version"   -> get_version(r)
      [] name = "ai_train"      -> ai_train(r)
      [] name = "ai_status"     -> ai_status(r)
      [] name = "finetune_data" -> finetune_data(r)

\* model_upload: struct.pack('<H', len(data)) + filename.encode('ascii') + b'\x00'
upload_header(filename, data) == pack_u16(Len(data)) \o filename \o << 0 >>

\* model_upload: chunk_size = 256
chunk_size == 256

\* model_upload: struct.pack('<I', i) + data[i:i+chunk_size]
upload_chunk(data, i) ==
    pack_u32(Word(i \div 65536, i % 65536)) \o Slice(data, i, i + chunk_size)

\* model_upload after the response r to the request it sent for offset i, i = -1
\* for the request that carries the name: what it raises, or the offset of the
\* chunk it sends next, or -1 when the loop is over and it returns True
upload_after(data, i, r) ==
    IF r.raised # "" THEN [raised |-> r.raised, next |-> -1]
    ELSE IF i = -1 /\ r.status = RESP_BUSY
    THEN [raised |-> "Device busy, try again", next |-> -1]
    ELSE IF i = -1 /\ r.status # RESP_OK
    THEN [raised |-> "Upload init failed", next |-> -1]
    ELSE IF i >= 0 /\ r.status # RESP_OK
    THEN [raised |-> "Upload chunk failed", next |-> -1]
    ELSE LET n == IF i = -1 THEN 0 ELSE i + chunk_size
         IN  [raised |-> "", next |-> IF n < Len(data) THEN n ELSE -1]

\* the bytes of a run of frames
RECURSIVE Flatten(_)
Flatten(fs) == IF fs = <<>> THEN <<>> ELSE Head(fs) \o Flatten(Tail(fs))

(***************************************************************************)
(* State.  mode: which entry point of mock_device.py runs, the loopback    *)
(* tests calling process_packet directly or the serial server.  dev: the   *)
(* MockDevice.  calls: the process_packet calls of the last step, in       *)
(* order.  prev and sent are kept by the upload-session steps: the device  *)
(* before the last step, and the bytes the caller has sent in Chunk        *)
(* requests since its last Start request.  wire: bytes written to the      *)
(* port and not yet read by the server; buffer: the server's receive       *)
(* buffer; tx: the responses the server has written; nframes: the writes   *)
(* made to the port so far.  rx: the bytes at the input of the host's port; *)
(* ret: the host's call, in flight or finished, with what it came back     *)
(* with; loaded: what a mocked port was loaded with for that call.         *)
(***************************************************************************)
VARIABLES mode, dev, prev, calls, sent, wire, buffer, tx, nframes, rx, ret, loaded

vars == << mode, dev, prev, calls, sent, wire, buffer, tx, nframes, rx, ret, loaded >>

serial_vars == << wire, buffer, tx, nframes >>

host_vars == << rx, ret, loaded >>

\* the host before its first call
NoCall ==
    [ pc |-> "idle", method |-> "", cmd |-> 0, payload |-> << >>, packet |-> << >>,
      out |-> None, api |-> None ]

\* bounds of the model: bytes per upload session, samples written, writes to the
\* serial port
MaxUpload == 2
MaxSamples == 2
MaxFrames == 2

\* ser.read(64)
ReadSize == 64

InitIn(modes) ==
    /\ mode \in modes
    /\ dev \in {MockDevice(id) : id \in DeviceIds}
    /\ prev = dev
    /\ calls = << >>
    /\ sent = << >>
    /\ wire = << >>
    /\ buffer = << >>
    /\ tx = << >>
    /\ nframes = 0
    /\ rx = << >>
    /\ ret = NoCall
    /\ loaded = None

Init == InitIn({"loopback"})

\* a caller hands one packet to process_packet (run_loopback_test, run_api_test)
\* the call c of process_packet was made by a loopback test
Delivered(c) ==
    /\ mode = "loopback"
    /\ dev' = c.dev
    /\ calls' = << c >>
    /\ UNCHANGED << mode, serial_vars, host_vars >>

Deliver(data) == Delivered(process_packet(dev, data))

(***************************************************************************)
(* The upload session, with its history                                    *)
(***************************************************************************)
\* payloads of Upload Start: 'a', and 'b' wrapped in bytes that decode drops and
\* strip removes
NamePayloads == { <<97>>, <<0, 200, 98, 0>> }

\* payloads of Upload Chunk: pieces of blobs made of the bytes 'X' and 'Y'
ChunkPayloads == { <<>>, <<88>>, <<89>>, <<88, 89>> }

\* byte i of b with its lowest bit flipped
FlipBit(b, i) == [b EXCEPT ![i] = XorByte[@][1]]

EndPayloadsFor(good) == { good, FlipBit(good, 1), <<>>, <<1, 2, 3>> }

\* the payloads of Upload End for a caller that sent `blob`: its CRC32, the CRC32
\* with one bit flipped, and payloads too short to hold a CRC32
EndPayloads(blob) == EndPayloadsFor(pack_u32(calculate_crc32(blob)))

SendUploadStart ==
    \E p \in NamePayloads :
        /\ Deliver(make_packet(CMD_MODEL_UPLOAD, p))
        /\ prev' = dev
        /\ sent' = << >>

SendUploadChunk ==
    \E p \in ChunkPayloads :
        /\ Len(sent) + Len(p) <= MaxUpload
        /\ Deliver(make_packet(CMD_UPLOAD_CHUNK, p))
        /\ prev' = dev
        /\ sent' = sent \o p

SendUploadEnd ==
    \E p \in EndPayloads(sent) :
        /\ Deliver(make_packet(CMD_UPLOAD_END, p))
        /\ prev' = dev
        /\ UNCHANGED sent

NextUpload ==
    \/ SendUploadStart
    \/ SendUploadChunk
    \/ SendUploadEnd

SpecUpload == Init /\ [][NextUpload]_vars

(***************************************************************************)
(* Any request, well-formed or corrupted, handed to process_packet         *)
(***************************************************************************)
\* 1.0 and +inf as little-endian binary32, and a payload too short
SamplePayloads == { <<0, 0, 128, 63>>, <<0, 0, 128, 127>>, <<0>> }

\* the requests a caller may send to the device `d`, as (opcode, payload)
Requests(d) ==
    { <<CMD_VERSION, <<>> >>, <<CMD_CLEAR, <<1>> >>,
      <<CMD_MODEL_UPLOAD, <<97>> >>,
      <<CMD_BASELINE_CAPTURE, <<>> >>, <<CMD_BASELINE_RESET, <<>> >> }
    \cup { <<c, <<>> >> : c \in UnknownOpcodes }
    \cup { <<CMD_UPLOAD_CHUNK, <<88>> >> : x \in {1} \cap 1..(MaxUpload - Len(d.upload_buffer)) }
    \cup { <<CMD_UPLOAD_END, p>> : p \in {pack_u32(calculate_crc32(d.upload_buffer))} }
    \cup { <<CMD_BUFFER_WRITE, p>> :
             p \in IF Len(d.circular_buffer) < MaxSamples THEN SamplePayloads ELSE {} }

\* the positions at which a packet is corrupted: the opcode, the length, the
\* byte after the length and the last byte of the trailer
FlipPositions(data) == {4, Len(data)}

SendRequest ==
    \E r \in Requests(dev) :
        /\ Deliver(make_packet(r[1], r[2]))
        /\ UNCHANGED << prev, sent >>

SendCorrupted ==
    \E r \in Requests(dev) :
        \E i \in FlipPositions(make_packet(r[1], r[2])) :
            /\ Deliver(FlipBit(make_packet(r[1], r[2]), i))
            /\ UNCHANGED << prev, sent >>

Next ==
    \/ SendRequest
    \/ SendCorrupted

Spec == Init /\ [][Next]_vars

(***************************************************************************)
(* The serial server, beside direct calls with truncated packets           *)
(***************************************************************************)
\* the request frames written to the port
SerialFrames ==
    { make_packet(CMD_VERSION, <<>>), make_packet(CMD_MODEL_UPLOAD, <<97>>),
      make_packet(CMD_UPLOAD_CHUNK, <<88>>) }

\* a sender writes a frame, or only its first k bytes before giving up
HostWrite ==
    \E f \in SerialFrames :
        \E k \in {3, Len(f) - 1, Len(f)} :
            /\ mode = "serial"
            /\ nframes < MaxFrames
            /\ nframes' = nframes + 1
            /\ wire' = wire \o SubSeq(f, 1, k)
            /\ UNCHANGED << mode, dev, prev, calls, sent, buffer, tx, host_vars >>

\* one pass of the server's loop whose ser.read(64) returns n bytes, n >= 1 (a
\* read that times out with nothing changes nothing)
\* the pass r of the server's loop, its responses written to the port
Served(r) ==
    /\ dev' = r.dev
    /\ buffer' = r.buffer
    /\ calls' = r.calls
    /\ tx' = tx \o Responses(r.calls)
    /\ rx' = rx \o Flatten(Responses(r.calls))

SerialReadOf(n) ==
    /\ mode \in {"serial", "link"}
    /\ ~ServerStopped(calls)
    /\ n <= Len(wire)
    /\ Served(ServePackets(dev, buffer \o SubSeq(wire, 1, n), << >>))
    /\ wire' = SubSeq(wire, n + 1, Len(wire))
    /\ UNCHANGED << mode, prev, sent, nframes, ret, loaded >>

SerialRead == \E n \in 1..ReadSize : SerialReadOf(n)

\* a caller hands process_packet the first k bytes of a frame
DeliverTruncated ==
    \E f \in SerialFrames :
        \E k \in 0..(Len(f) - 1) :
            /\ Deliver(SubSeq(f, 1, k))
            /\ UNCHANGED << prev, sent >>

DeliverFrame ==
    \E f \in SerialFrames :
        /\ Len(dev.upload_buffer) < MaxUpload
        /\ Deliver(f)
        /\ UNCHANGED << prev, sent >>

\* the request frames of a stream: Version, the start of an upload under a name
\* of 234 letters, the end of an upload, and the model list
StreamFrames ==
    { make_packet(CMD_VERSION, <<>>), make_packet(CMD_UPLOAD_END, pack_u32(Zero32)),
      make_packet(CMD_MODEL_LIST, <<>>) }
    \cup { make_packet(CMD_MODEL_UPLOAD, [i \in 1..234 |-> 97]) }

\* the frames written in a stream
MaxStream == 3

\* a sender writes a frame, or gives up after its marker, opcode and length and
\* one more byte; `sent` is the list of what was written
StreamWrite ==
    \E f \in StreamFrames :
        \E k \in {4, Len(f)} :
            /\ mode = "serial"
            /\ Len(sent) < MaxStream
            /\ Len(f) > 100 => (sent = << >> /\ k = Len(f))
            /\ wire' = wire \o SubSeq(f, 1, k)
            /\ sent' = Append(sent, SubSeq(f, 1, k))
            /\ UNCHANGED << mode, dev, prev, calls, buffer, tx, nframes, host_vars >>

\* the sizes of the reads of a stream: byte by byte, across the boundaries of
\* frames, and everything there is
StreamReads == {1, 3, 8, ReadSize}

StreamRead == \E n \in StreamReads : SerialReadOf(n)

NextStream ==
    \/ StreamWrite
    \/ StreamRead

SpecStream == InitIn({"serial"}) /\ [][NextStream]_vars

NextSerial ==
    \/ HostWrite
    \/ SerialRead
    \/ DeliverTruncated
    \/ DeliverFrame

SpecSerial == InitIn({"loopback", "serial"}) /\ [][NextSerial]_vars

(***************************************************************************)
(* The serial server on a line that carries noise ahead of a frame         *)
(***************************************************************************)
\* bytes other than the marker
NoiseBytes == { <<0>>, <<85, 0>> }

\* noise and then a whole frame reach the port
NoisyWrite ==
    \E g \in NoiseBytes :
        \E f \in SerialFrames :
            /\ mode = "serial"
            /\ nframes < MaxFrames
            /\ nframes' = nframes + 1
            /\ wire' = wire \o g \o f
            /\ UNCHANGED << mode, dev, prev, calls, sent, buffer, tx, host_vars >>

NextNoise ==
    \/ HostWrite
    \/ NoisyWrite
    \/ SerialRead

SpecNoise == InitIn({"serial"}) /\ [][NextNoise]_vars

(***************************************************************************)
(* The host library on a port served by run_serial_server                  *)
(***************************************************************************)
\* _send_command up to its first read: the packet is written to the port
HostSend ==
    \E m \in ApiMethods :
        /\ mode = "link"
        /\ ret.pc = "idle"
        /\ nframes < MaxFrames
        /\ nframes' = nframes + 1
        /\ wire' = wire \o send_command_packet(m.cmd, m.payload)
        /\ ret' = [ pc |-> "reading", method |-> m.name, cmd |-> m.cmd,
                    payload |-> m.payload,
                    packet |-> send_command_packet(m.cmd, m.payload),
                    out |-> None, api |-> None ]
        /\ UNCHANGED << mode, dev, prev, calls, sent, buffer, tx, rx, loaded >>

\* the reads of _send_command, with the bytes that reached the port's input by
\* their timeouts, and the method's own handling of what came back
HostRecv ==
    LET r == send_command_read(rx)
    IN  /\ mode = "link"
        /\ ret.pc = "reading"
        /\ rx' = r.rest
        /\ ret' = [ret EXCEPT !.pc = "idle", !.out = r, !.api = ApiResult(ret.method, r)]
        /\ UNCHANGED << mode, dev, prev, calls, sent, wire, buffer, tx, nframes, loaded >>

NextLink ==
    \/ HostSend
    \/ SerialRead
    \/ HostRecv

SpecLink == InitIn({"link"}) /\ [][NextLink]_vars

(***************************************************************************)
(* The host library on a mocked port (unit_tests.py): the port's input is  *)
(* loaded with a response frame, whole or damaged, and a method is called  *)
(***************************************************************************)
PeerStatuses == { RESP_OK, RESP_ERROR, RESP_BUSY, 255 }

\* response data: nothing, a version, a float, the 8 and 12 bytes of an AI
\* status, and 255 bytes; every four bytes read as a float near 0.5
PeerData ==
    { << >>, << 2, 2, 0 >>, << 0, 0, 0, 63 >>,
      << 0, 2, 0, 63, 0, 0, 0, 63 >>, << 0, 2, 0, 63, 0, 0, 0, 63, 2, 0, 1, 0 >>,
      [i \in 1..255 |-> IF i % 4 = 0 THEN 63 ELSE IF i % 4 = 3 THEN 0 ELSE i] }

Damages ==
    { "none", "nothing", "short header", "short data", "short trailer",
      "wrong marker", "flipped status", "flipped trailer" }

Damage(frame, kind) ==
    CASE kind = "none"            -> frame
      [] kind = "nothing"         -> << >>
      [] kind = "short header"    -> SubSeq(frame, 1, 3)
      [] kind = "short data"      -> SubSeq(frame, 1, Len(frame) - 5)
      [] kind = "short trailer"   -> SubSeq(frame, 1, Len(frame) - 1)
      [] kind = "wrong marker"    -> [frame EXCEPT ![1] = 255]
      [] kind = "flipped status"  -> FlipBit(frame, 3)
      [] kind = "flipped trailer" -> FlipBit(frame, Len(frame))

\* what the port's input is loaded with for a call of opcode cmd
Loads(cmd) ==
    { [ cmd |-> cmd, status |-> st, data |-> data, damage |-> k,
        stream |-> Damage(_make_response([current_cmd |-> cmd], st, data), k) ] :
        st \in PeerStatuses, data \in PeerData, k \in Damages }

\* every call on a mocked port: the method, the load, what _send_command came
\* back with and what the method made of it
Exchanges ==
    { [ m |-> m, l |-> l, r |-> send_command_read(l.stream) ] :
        m \in ApiMethods,
        l \in UNION { Loads(c) : c \in { x.cmd : x \in ApiMethods } } }

Exchange ==
    \E x \in Exchanges :
        /\ mode = "mock"
        /\ x.l.cmd = x.m.cmd
        /\ loaded' = x.l
        /\ rx' = x.r.rest
        /\ ret' = [ pc |-> "idle", method |-> x.m.name, cmd |-> x.m.cmd,
                    payload |-> x.m.payload,
                    packet |-> send_command_packet(x.m.cmd, x.m.payload),
                    out |-> x.r, api |-> ApiResult(x.m.name, x.r) ]
        /\ UNCHANGED << mode, dev, prev, calls, sent, serial_vars >>

NextCodec == Exchange

SpecCodec == InitIn({"mock"}) /\ [][NextCodec]_vars

(***************************************************************************)
(* _checksum of the host library on short payloads and a long one          *)
(***************************************************************************)
\* the bytes of the payloads
ChecksumBytes == {0, 1, 127, 128, 255}

\* the length of the short payloads
MaxChecksumLen == 3

ChecksumPayloads ==
    UNION { [1..n -> ChecksumBytes] : n \in 0..MaxChecksumLen }
        \cup { [i \in 1..255 |-> 255] }

\* a call of _checksum: ret.out is what it returned
ChecksumCall ==
    \E data \in ChecksumPayloads :
        /\ mode = "mock"
        /\ ret' = [ pc |-> "idle", method |-> "_checksum", cmd |-> 0, payload |-> data,
                    packet |-> << >>, out |-> _checksum(data), api |-> None ]
        /\ UNCHANGED << mode, dev, prev, calls, sent, serial_vars, rx, loaded >>

NextChecksum == ChecksumCall

SpecChecksum == InitIn({"mock"}) /\ [][NextChecksum]_vars

(***************************************************************************)
(* _send_command on a mocked port, its write and its reads apart: `sent`   *)
(* is the list of the packets written to the port                          *)
(***************************************************************************)
\* the calls of _send_command made
MaxCalls == 2

\* lines 151-156: the packet is built and written; the port's input holds what
\* the peer sends back by the timeouts of the reads, here a response of at most
\* 3 bytes of data, whole or damaged
SendCommandWrite ==
    \E m \in ApiMethods :
        \E l \in Loads(m.cmd) :
            /\ Len(l.data) <= 3
            /\ mode = "mock"
            /\ ret.pc = "idle"
            /\ Len(sent) < MaxCalls
            /\ loaded' = l
            /\ rx' = l.stream
            /\ sent' = Append(sent, send_command_packet(m.cmd, m.payload))
            /\ ret' = [ pc |-> "reading", method |-> m.name, cmd |-> m.cmd,
                        payload |-> m.payload,
                        packet |-> send_command_packet(m.cmd, m.payload),
                        out |-> None, api |-> None ]
            /\ UNCHANGED << mode, dev, prev, calls, serial_vars >>

\* the call ends with what its reads gave
SendCommandEnds(r) ==
    /\ rx' = r.rest
    /\ ret' = [ret EXCEPT !.pc = "idle", !.out = r, !.api = ApiResult(ret.method, r)]

\* mutant: a request whose response timed out is written again
SendCommandReadRetries ==
    /\ mode = "mock"
    /\ ret.pc = "reading"
    /\ IF send_command_read(rx).raised = "Timeout waiting for response"
          /\ Len(sent) <= MaxCalls
       THEN /\ sent' = Append(sent, ret.packet)
            /\ UNCHANGED << rx, ret >>
       ELSE /\ SendCommandEnds(send_command_read(rx))
            /\ UNCHANGED sent
    /\ UNCHANGED << mode, dev, prev, calls, serial_vars, loaded >>

\* lines 158-190: the reads of the header, the data and the trailer, each
\* failure raised to the caller
SendCommandRead ==
    /\ mode = "mock"
    /\ ret.pc = "reading"
    /\ SendCommandEnds(send_command_read(rx))
    /\ UNCHANGED << mode, dev, prev, calls, sent, serial_vars, loaded >>

NextSend ==
    \/ SendCommandWrite
    \/ SendCommandRead

SpecSend == InitIn({"mock"}) /\ [][NextSend]_vars

(***************************************************************************)
(* model_upload of the host library on a mocked port.  `sent` is the list  *)
(* of the frames the call has written; each _send_command of the call      *)
(* reads what the port was loaded with: a response frame or nothing.       *)
(***************************************************************************)
\* the names 'a' and 'ab'
UploadNames == { <<97>>, <<97, 98>> }

\* the lengths of the blobs uploaded
BlobLengths == { 0, 1, 2, 251, 252, 256, 257 }

\* a blob of n bytes: 1, 2, 3, ...
Blob(n) == [k \in 1..n |-> k % 256]

\* what the peer answers to a request of opcode cmd: OK, ERROR, BUSY, or nothing
\* before the timeout
PeerAnswers(cmd) ==
    { _make_response([current_cmd |-> cmd], st, << >>) : st \in {RESP_OK, RESP_ERROR, RESP_BUSY} }
    \cup { << >> }

\* the call of model_upload up to its first read; the names are short enough for
\* the first packet
UploadCall(filename, data) ==
    [ pc |-> "reading", method |-> "model_upload", cmd |-> CMD_MODEL_UPLOAD,
      payload |-> upload_header(filename, data),
      packet |-> send_command_packet(CMD_MODEL_UPLOAD, upload_header(filename, data)),
      out |-> None, api |-> None, filename |-> filename, data |-> data, i |-> -1 ]

HostUploadStart ==
    \E filename \in UploadNames :
        \E n \in BlobLengths :
            /\ mode = "mock"
            /\ ret.pc = "idle"
            /\ ret' = UploadCall(filename, Blob(n))
            /\ sent' = << send_command_packet(CMD_MODEL_UPLOAD, upload_header(filename, Blob(n))) >>
            /\ UNCHANGED << mode, dev, prev, calls, serial_vars, rx, loaded >>

\* the call goes on after a response: it raises, returns True, or builds the
\* packet of the next chunk, which raises or is written
UploadStep(r, after, packet) ==
    IF after.raised # ""
    THEN /\ ret' = [ret EXCEPT !.pc = "idle", !.out = r, !.api = Fails(after.raised)]
         /\ UNCHANGED sent
    ELSE IF after.next = -1
    THEN /\ ret' = [ret EXCEPT !.pc = "idle", !.out = r, !.api = Gives(TRUE)]
         /\ UNCHANGED sent
    ELSE IF DOMAIN packet = {"exception"}
    THEN /\ ret' = [ret EXCEPT !.pc = "idle", !.out = r, !.api = Fails(packet.exception),
                               !.i = after.next]
         /\ UNCHANGED sent
    ELSE /\ ret' = [ret EXCEPT !.out = r, !.i = after.next, !.packet = packet,
                               !.payload = upload_chunk(ret.data, after.next)]
         /\ sent' = Append(sent, packet)

HostUploadRecv ==
    \E stream \in PeerAnswers(ret.cmd) :
        /\ mode = "mock"
        /\ ret.pc = "reading"
        /\ ret.method = "model_upload"
        /\ loaded' = stream
        /\ rx' = send_command_read(stream).rest
        /\ UploadStep(send_command_read(stream),
                      upload_after(ret.data, ret.i, send_command_read(stream)),
                      send_command_packet(CMD_MODEL_UPLOAD,
                          upload_chunk(ret.data,
                              upload_after(ret.data, ret.i, send_command_read(stream)).next)))
        /\ UNCHANGED << mode, dev, prev, calls, serial_vars >>

NextHostUpload ==
    \/ HostUploadStart
    \/ HostUploadRecv

SpecHostUpload == InitIn({"mock"}) /\ [][NextHostUpload]_vars

(***************************************************************************)
(* Training, status and model list requests, and uploads under long names  *)
(***************************************************************************)
\* the epochs a caller trains up to
MaxEpochs == 65535

\* a model name of 234 letters 'a'
LongNames == { [i \in 1..234 |-> 97] }

\* the Upload Start requests for these names
LongStartPackets == { make_packet(CMD_MODEL_UPLOAD, name) : name \in LongNames }

SendTrain ==
    /\ dev.epochs_trained <= MaxEpochs
    /\ Deliver(make_packet(CMD_AI_TRAIN, << 255 >>))
    /\ UNCHANGED << prev, sent >>

SendStatus ==
    /\ Deliver(make_packet(CMD_AI_STATUS, << >>))
    /\ UNCHANGED << prev, sent >>

SendLongStart ==
    \E packet \in LongStartPackets :
        /\ Deliver(packet)
        /\ UNCHANGED << prev, sent >>

SendEnd ==
    /\ Deliver(make_packet(CMD_UPLOAD_END, pack_u32(calculate_crc32(dev.upload_buffer))))
    /\ UNCHANGED << prev, sent >>

SendList ==
    \E c \in {CMD_AI_LIST, CMD_MODEL_LIST} :
        /\ Deliver(make_packet(c, << >>))
        /\ UNCHANGED << prev, sent >>

NextHandlers ==
    \/ SendTrain
    \/ SendStatus
    \/ SendLongStart
    \/ SendEnd
    \/ SendList

SpecHandlers == Init /\ [][NextHandlers]_vars

(***************************************************************************)
(* Batch requests, between sample writes and baseline captures             *)
(***************************************************************************)
\* 1.0, 2.0 and 0.5 as little-endian binary32
FiniteSamples == { <<0, 0, 128, 63>>, <<0, 0, 0, 64>>, <<0, 0, 0, 63>> }

\* one sub-record of a batch payload: SUBOPCODE SUBLEN SUBPAYLOAD
SubRecord(op, payload) == << op, Len(payload) >> \o payload

\* a second sub-record that declares 9 bytes where 2 follow
OverlongRecord == << CMD_BUFFER_WRITE, 9, 0, 0 >>

\* the payloads of the batch requests a caller sends: no sub-record, one write,
\* three writes, a write and a baseline capture, and a write followed by a
\* sub-record longer than what is left of the payload
BatchPayloads ==
    { << >>,
      SubRecord(CMD_BUFFER_WRITE, <<0, 0, 128, 63>>) \o SubRecord(CMD_BASELINE_CAPTURE, << >>) }
    \cup { SubRecord(CMD_BUFFER_WRITE, s) : s \in FiniteSamples }
    \cup { SubRecord(CMD_BUFFER_WRITE, s) \o SubRecord(CMD_BUFFER_WRITE, <<0, 0, 0, 64>>)
             \o SubRecord(CMD_BUFFER_WRITE, <<0, 0, 0, 63>>) : s \in FiniteSamples }
    \cup { SubRecord(CMD_BUFFER_WRITE, s) \o OverlongRecord : s \in FiniteSamples }

SendBatch ==
    \E p \in BatchPayloads :
        /\ Deliver(make_packet(CMD_BATCH, p))
        /\ prev' = dev
        /\ UNCHANGED sent

SendSample ==
    \E s \in FiniteSamples :
        /\ Len(dev.circular_buffer) < MaxSamples
        /\ Deliver(make_packet(CMD_BUFFER_WRITE, s))
        /\ prev' = dev
        /\ UNCHANGED sent

SendCapture ==
    \E c \in {CMD_BASELINE_CAPTURE, CMD_BASELINE_RESET} :
        /\ Deliver(make_packet(c, << >>))
        /\ prev' = dev
        /\ UNCHANGED sent

NextBatch ==
    \/ SendBatch
    \/ SendSample
    \/ SendCapture

SpecBatch == Init /\ [][NextBatch]_vars

(***************************************************************************)
(* A long run of sample writes: `sent` is the list of the values written   *)
(* that are finite floats, in the order they were written                  *)
(***************************************************************************)
\* the writes of the run: one more than fills the buffer and evicts once
MaxWrites == 62

\* NaN, +inf and -inf as little-endian binary32, and payloads of 0 and 3 bytes
RejectedPayloads ==
    { <<0, 0, 192, 127>>, <<0, 0, 128, 127>>, <<0, 0, 128, 255>>, << >>, <<0, 0, 128>> }

\* the k-th value written is k: 1.0, 2.0, 3.0, ...
SendNextSample ==
    /\ Len(sent) < MaxWrites
    /\ Deliver(make_packet(CMD_BUFFER_WRITE, pack_f32(Rat(Len(sent) + 1, 1))))
    /\ prev' = dev
    /\ sent' = Append(sent, Rat(Len(sent) + 1, 1))

SendRejectedSample ==
    \E p \in RejectedPayloads :
        /\ Deliver(make_packet(CMD_BUFFER_WRITE, p))
        /\ prev' = dev
        /\ UNCHANGED sent

SendSnapshot ==
    /\ Deliver(make_packet(CMD_BUFFER_SNAPSHOT, << >>))
    /\ prev' = dev
    /\ UNCHANGED sent

\* the caller captures a baseline once the buffer is full
SendCaptureFull ==
    /\ Len(dev.circular_buffer) = BufferCapacity
    /\ Deliver(make_packet(CMD_BASELINE_CAPTURE, << >>))
    /\ prev' = dev
    /\ UNCHANGED sent

NextBuffer ==
    \/ SendNextSample
    \/ SendRejectedSample
    \/ SendSnapshot
    \/ SendCaptureFull

SpecBuffer == Init /\ [][NextBuffer]_vars

(***************************************************************************)
(* Baseline capture, reset and delta on short buffers                      *)
(***************************************************************************)
\* 1.0, 16777216.0 and 16777218.0 as little-endian binary32: the mean of the
\* last two, 16777217.0, is a double that is no 32-bit float
BaselineSamples == { <<0, 0, 128, 63>>, <<0, 0, 128, 75>>, <<1, 0, 128, 75>> }

SendBaselineSample ==
    \E s \in BaselineSamples :
        /\ Len(dev.circular_buffer) < MaxSamples
        /\ Deliver(make_packet(CMD_BUFFER_WRITE, s))
        /\ prev' = dev
        /\ UNCHANGED sent

SendGetDelta ==
    /\ Deliver(make_packet(CMD_GET_DELTA, << >>))
    /\ prev' = dev
    /\ UNCHANGED sent

NextBaseline ==
    \/ SendBaselineSample
    \/ SendCapture
    \/ SendGetDelta

SpecBaseline == Init /\ [][NextBaseline]_vars

(***************************************************************************)
(* Correlation of short buffers with a reference                           *)
(***************************************************************************)
\* the payloads of Correlate: no byte, 3 bytes, the samples (1.0), (1.0, 2.0),
\* (2.0, 1.0), (3.0, 3.0) and (NaN, 1.0), and (1.0) followed by 2 bytes
References ==
    { << >>, <<0, 0, 128>>, <<0, 0, 128, 63>>,
      <<0, 0, 128, 63, 0, 0, 0, 64>>, <<0, 0, 0, 64, 0, 0, 128, 63>>,
      <<0, 0, 64, 64, 0, 0, 64, 64>>, <<0, 0, 192, 127, 0, 0, 128, 63>>,
      <<0, 0, 128, 63, 0, 0>> }

SendCorrelate ==
    \E p \in References :
        /\ Deliver(make_packet(CMD_CORRELATE, p))
        /\ prev' = dev
        /\ UNCHANGED sent

NextCorrelate ==
    \/ SendSample
    \/ SendCapture
    \/ SendCorrelate

SpecCorrelate == Init /\ [][NextCorrelate]_vars

(***************************************************************************)
(* Correlation of the buffer with itself and with its negation             *)
(***************************************************************************)
\* [-v for v in samples]
Negated(samples) == [i \in DOMAIN samples |-> RatSub(Rat(0, 1), samples[i])]

\* the reference is the snapshot of the buffer
SendSelfReference ==
    /\ Deliver(make_packet(CMD_CORRELATE, pack_floats(dev.circular_buffer)))
    /\ prev' = dev
    /\ UNCHANGED sent

\* the reference is the snapshot of the buffer, every sample negated
SendInvertedReference ==
    /\ Deliver(make_packet(CMD_CORRELATE, pack_floats(Negated(dev.circular_buffer))))
    /\ prev' = dev
    /\ UNCHANGED sent

NextMirror ==
    \/ SendSample
    \/ SendCapture
    \/ SendSelfReference
    \/ SendInvertedReference

SpecMirror == Init /\ [][NextMirror]_vars

(***************************************************************************)
(* A buffer filled to the point of eviction, then every telemetry request  *)
(***************************************************************************)
\* the buffer lacks one sample at most
NearFull == Len(dev.circular_buffer) >= BufferCapacity - 1

\* BaselineCapture and BaselineReset
NearFullCapture == NearFull /\ SendCapture

NearFullSnapshot == NearFull /\ SendSnapshot

NearFullGetDelta == NearFull /\ SendGetDelta

\* Correlate with the reference (1.0, 2.0)
NearFullCorrelate ==
    /\ NearFull
    /\ Deliver(make_packet(CMD_CORRELATE, <<0, 0, 128, 63, 0, 0, 0, 64>>))
    /\ prev' = dev
    /\ UNCHANGED sent

NextEvict ==
    \/ SendNextSample
    \/ NearFullCapture
    \/ NearFullSnapshot
    \/ NearFullGetDelta
    \/ NearFullCorrelate

SpecEvict == Init /\ [][NextEvict]_vars

(***************************************************************************)
(* The identity handshake, between sample writes and baseline captures     *)
(***************************************************************************)
\* the payloads of the verify request for a device of identity id: the identity,
\* the identity followed by one byte and by itself, its first 7 bytes, no byte,
\* and 8 bytes 00
PingPayloads(id) ==
    { id, id \o <<0>>, id \o id, SubSeq(id, 1, 7), << >>, <<0, 0, 0, 0, 0, 0, 0, 0>> }

SendWhoIsThere ==
    /\ Deliver(make_packet(CMD_WHO_IS_THERE, << >>))
    /\ prev' = dev
    /\ UNCHANGED sent

SendPingId ==
    \E p \in PingPayloads(dev.device_id) :
        /\ Deliver(make_packet(CMD_PING_ID, p))
        /\ prev' = dev
        /\ UNCHANGED sent

NextIdentity ==
    \/ SendWhoIsThere
    \/ SendPingId
    \/ SendSample
    \/ SendCapture

SpecIdentity == Init /\ [][NextIdentity]_vars

(***************************************************************************)
(* Every opcode of the handler table, unknown opcodes and malformed        *)
(* packets.  A sample is written and a baseline captured first; then the   *)
(* display, the training state and the upload session are each exercised   *)
(* from a device whose other two are as constructed.  The requests that    *)
(* change nothing run throughout.                                          *)
(***************************************************************************)
\* the device as constructed, with the identity of d
Fresh(d) == MockDevice(d.device_id)

TrainingOf(d) == << d.epochs_trained, d.last_loss, d.model_loaded, d.uniform >>

UploadOf(d) == << d.upload_name, d.upload_buffer, d.upload_crc, d.is_uploading, d.models >>

\* a sample is buffered and a baseline captured
Loaded(d) == d.baseline # None

\* process_packet(data) on the device d
DeliverTo(d, data) == Delivered(process_packet(d, data))

\* the display requests: a pixel set, cleared, and off the display, the display
\* cleared to black and to white, and the requests that draw nothing
GraphicsRequests(d) ==
    IF Loaded(d) /\ TrainingOf(d) = TrainingOf(Fresh(d)) /\ UploadOf(d) = UploadOf(Fresh(d))
    THEN { <<CMD_PIXEL, << >> >>, <<CMD_PIXEL, <<1, 9, 1>> >>, <<CMD_PIXEL, <<1, 9, 0>> >>,
           <<CMD_PIXEL, <<200, 9, 1>> >>, <<CMD_CLEAR, << >> >>, <<CMD_CLEAR, <<1>> >>,
           <<CMD_RECT, << >> >>, <<CMD_TEXT, << >> >>, <<CMD_FLUSH, << >> >> }
    ELSE {}

\* the inputs (1.0, 0.0) of an inference
InferInputs == <<0, 0, 128, 63, 0, 0, 0, 0>>

\* every training and model opcode with no payload, and on a device not yet
\* trained the training steps with an epoch count and with three floats
TrainingRequests(d) ==
    IF Loaded(d) /\ d.framebuffer = Fresh(d).framebuffer /\ UploadOf(d) = UploadOf(Fresh(d))
    THEN { <<c, << >> >> :
             c \in { CMD_AI_STATUS, CMD_AI_SAVE, CMD_AI_LOAD, CMD_AI_LIST, CMD_AI_DELETE,
                     CMD_MODEL_INFO, CMD_MODEL_LIST, CMD_MODEL_SELECT, CMD_MODEL_DELETE,
                     CMD_FINETUNE_START, CMD_FINETUNE_DATA, CMD_FINETUNE_STOP } }
         \cup (IF TrainingOf(d) = TrainingOf(Fresh(d))
               THEN { <<CMD_AI_TRAIN, << >> >>, <<CMD_AI_TRAIN, <<7>> >>,
                      <<CMD_FINETUNE_DATA, InferInputs \o <<0, 0, 128, 63>> >> }
               ELSE {})
    ELSE {}

SentinelRequests ==
    { <<c, << >> >> : c \in {CMD_SENTINEL_STATUS, CMD_SENTINEL_TRIGGER, CMD_SENTINEL_LEARN} }

\* the telemetry requests: the identity check with the identity and with
\* nothing, a NaN, a reference of one sample; and, on a device otherwise as
\* constructed, a sample 1.0 while the buffer is empty, a capture and a reset
TelemetryRequests(d) ==
    { <<c, << >> >> :
        c \in { CMD_WHO_IS_THERE, CMD_PING_ID, CMD_BUFFER_SNAPSHOT, CMD_GET_DELTA,
                CMD_CORRELATE } }
    \cup { <<CMD_PING_ID, d.device_id>>, <<CMD_BUFFER_WRITE, <<0, 0, 192, 127>> >>,
           <<CMD_CORRELATE, <<0, 0, 128, 63>> >> }
    \cup (IF /\ d.framebuffer = Fresh(d).framebuffer
             /\ TrainingOf(d) = TrainingOf(Fresh(d))
             /\ UploadOf(d) = UploadOf(Fresh(d))
          THEN { <<CMD_BASELINE_CAPTURE, << >> >>, <<CMD_BASELINE_RESET, << >> >> }
               \cup (IF d.circular_buffer = << >>
                     THEN { <<CMD_BUFFER_WRITE, <<0, 0, 128, 63>> >> } ELSE {})
          ELSE {})

\* Start 'a', one Chunk 'X', and End with the CRC32 of the bytes accumulated or
\* with no payload
UploadRequests(d) ==
    IF Loaded(d) /\ d.framebuffer = Fresh(d).framebuffer
                 /\ TrainingOf(d) = TrainingOf(Fresh(d))
    THEN { <<CMD_MODEL_UPLOAD, <<97>> >>, <<CMD_UPLOAD_END, << >> >>,
           <<CMD_UPLOAD_END, pack_u32(calculate_crc32(d.upload_buffer))>> }
         \cup (IF Len(d.upload_buffer) < 1 THEN { <<CMD_UPLOAD_CHUNK, <<88>> >> } ELSE {})
    ELSE {}

\* the version, a batch of one write, and an opcode with no handler
OtherRequests ==
    { <<CMD_VERSION, << >> >>, <<CMD_BATCH, <<CMD_BUFFER_WRITE, 4, 0, 0, 128, 63>> >> }
    \cup { <<c, << >> >> : c \in UnknownOpcodes }

\* a well-formed request of any opcode
SendOpcode ==
    \E r \in GraphicsRequests(dev) \cup TrainingRequests(dev) \cup SentinelRequests
             \cup TelemetryRequests(dev) \cup UploadRequests(dev) \cup OtherRequests :
        /\ Deliver(make_packet(r[1], r[2]))
        /\ UNCHANGED << prev, sent >>

\* the values random.uniform(-0.02, 0.02) returns: -1/64, 0 and 1/64
Draws == { Rat(-1, 64), Rat(0, 1), Rat(1, 64) }

\* an inference on two inputs, and one on a payload too short
SendInfer ==
    \E p \in { InferInputs, <<0, 0, 128, 63>> } :
        \E u \in Draws :
            /\ Loaded(dev)
            /\ dev.framebuffer = Fresh(dev).framebuffer
            /\ UploadOf(dev) = UploadOf(Fresh(dev))
            /\ dev.last_loss = Fresh(dev).last_loss
            /\ DeliverTo([dev EXCEPT !.uniform = u], make_packet(CMD_AI_INFER, p))
            /\ UNCHANGED << prev, sent >>

\* a packet of 6 bytes, one with another first byte, one cut short of the length
\* it declares, and one with a bit of its trailer flipped
Malformed(f) ==
    { SubSeq(f, 1, 6), [f EXCEPT ![1] = 85], SubSeq(f, 1, Len(f) - 3), FlipBit(f, Len(f)) }

SendMalformed ==
    \E data \in Malformed(make_packet(CMD_BUFFER_WRITE, <<0, 0, 0, 64>>)) :
        /\ Deliver(data)
        /\ UNCHANGED << prev, sent >>

NextOpcodes ==
    \/ SendOpcode
    \/ SendInfer
    \/ SendMalformed

SpecOpcodes == Init /\ [][NextOpcodes]_vars

(***************************************************************************)
(* Reading the calls of the last step                                      *)
(***************************************************************************)
\* the device as call i found it
Before(i) == IF i = 1 THEN prev ELSE calls[i - 1].dev

Status(c) == c.response[3]

Payload(c) == Slice(c.request, 3, 3 + c.request[3])

\* the upload session of a device
Session(d) == << d.upload_name, d.upload_buffer, d.upload_crc, d.is_uploading >>

\* the expected_crc32 of an Upload End payload differs from the CRC32 of the
\* bytes accumulated
WrongCrc(p, d) ==
    Len(p) >= 4 /\ unpack_u32(SubSeq(p, 1, 4)) # calculate_crc32(d.upload_buffer)

(***************************************************************************)
(* Upload session                                                          *)
(***************************************************************************)
\* C1: an Upload Start received while a session is active is answered BUSY
C1_StartWhileActiveIsBusy ==
    \A i \in DOMAIN calls :
        (calls[i].handler = "_cmd_upload_start" /\ Before(i).is_uploading)
            => Status(calls[i]) = RESP_BUSY

\* C2: an Upload Start received while a session is active leaves the session's
\* name, accumulated bytes and running CRC32 as they were
C2_StartWhileActiveKeepsSession ==
    \A i \in DOMAIN calls :
        (calls[i].handler = "_cmd_upload_start" /\ Before(i).is_uploading)
            => /\ calls[i].dev.upload_name = Before(i).upload_name
               /\ calls[i].dev.upload_buffer = Before(i).upload_buffer
               /\ calls[i].dev.upload_crc = Before(i).upload_crc

\* C3: an Upload End whose expected_crc32 differs from the CRC32 of the bytes
\* accumulated in the active session is answered with a status other than OK
C3_EndWrongCrcFails ==
    \A i \in DOMAIN calls :
        (/\ calls[i].handler = "_cmd_upload_end"
         /\ Before(i).is_uploading
         /\ WrongCrc(Payload(calls[i]), Before(i)))
            => Status(calls[i]) # RESP_OK

\* C8: an Upload End with a wrong expected_crc32, or with a payload of fewer than
\* 4 bytes, leaves the model table as it was
C8_OnlyVerifiedEndStores ==
    \A i \in DOMAIN calls :
        (/\ calls[i].handler = "_cmd_upload_end"
         /\ (Len(Payload(calls[i])) < 4 \/ WrongCrc(Payload(calls[i]), Before(i))))
            => calls[i].dev.models = Before(i).models
\* the device is between sessions: an End has closed the session of upload_name
AfterEnd(d) == ~d.is_uploading /\ d.upload_name \in dict_keys(d.models)

\* C4: an Upload End processed while a session is active leaves the session
\* inactive; with no session active a Start is accepted with OK and starts from
\* an empty buffer, and a Chunk is rejected with ERROR
C4_EndClearsSession ==
    \A i \in DOMAIN calls :
        LET c == calls[i]
            b == Before(i)
        IN  /\ (c.handler = "_cmd_upload_end" /\ b.is_uploading) => ~c.dev.is_uploading
            /\ (c.handler = "_cmd_upload_start" /\ ~b.is_uploading)
                   => /\ Status(c) = RESP_OK
                      /\ c.dev.is_uploading
                      /\ c.dev.upload_buffer = << >>
            /\ (c.handler = "_cmd_upload_chunk" /\ ~b.is_uploading)
                   => /\ Status(c) = RESP_ERROR
                      /\ ~c.dev.is_uploading

\* a Start accepted from an empty buffer right after the End of a session that
\* had accumulated bytes
C4_Witness ==
    /\ calls # << >>
    /\ calls[1].handler = "_cmd_upload_start"
    /\ AfterEnd(prev) /\ prev.upload_buffer # << >>
    /\ Status(calls[1]) = RESP_OK
    /\ dev.upload_buffer = << >>

\* C5: Start, Chunk(c1) .. Chunk(ck), End(CRC32 of c1 || .. || ck) is answered OK
\* at every step, and the bytes accumulated when End is processed are
\* c1 || .. || ck
C5_UploadReassembles ==
    /\ dev.is_uploading => dev.upload_buffer = sent
    /\ \A i \in DOMAIN calls :
        LET c == calls[i]
            b == Before(i)
        IN  /\ (c.handler = "_cmd_upload_start" /\ ~b.is_uploading) => Status(c) = RESP_OK
            /\ (c.handler = "_cmd_upload_chunk" /\ b.is_uploading)
                   => /\ Status(c) = RESP_OK
                      /\ c.dev.upload_buffer = b.upload_buffer \o Payload(c)
            /\ (/\ c.handler = "_cmd_upload_end"
                /\ b.is_uploading
                /\ Payload(c) = pack_u32(calculate_crc32(sent)))
                   => /\ Status(c) = RESP_OK
                      /\ b.upload_buffer = sent
                      /\ c.dev.upload_buffer = sent

\* an End with the CRC32 of a two-byte blob 'XY' is answered OK
C5_Witness ==
    /\ calls # << >>
    /\ calls[1].handler = "_cmd_upload_end"
    /\ prev.is_uploading
    /\ sent = <<88, 89>>
    /\ Payload(calls[1]) = pack_u32(calculate_crc32(sent))
    /\ Status(calls[1]) = RESP_OK

\* C6: while a session is active, the running CRC32 is the CRC32 of the
\* accumulated bytes computed in one pass
C6_RunningCrcIsCrcOfBuffer ==
    dev.is_uploading => Mask32(dev.upload_crc) = calculate_crc32(dev.upload_buffer)

\* two bytes accumulated, the second by a chunk of its own
C6_Witness ==
    /\ calls # << >>
    /\ calls[1].handler = "_cmd_upload_chunk"
    /\ dev.is_uploading
    /\ Len(Payload(calls[1])) = 1
    /\ Len(dev.upload_buffer) = 2

\* C7: Upload Chunk or Upload End with no session active is answered ERROR and
\* leaves the buffer, the name, the active flag and the model table as they were
C7_NoSessionNoEffect ==
    \A i \in DOMAIN calls :
        LET c == calls[i]
            b == Before(i)
        IN  (c.handler \in {"_cmd_upload_chunk", "_cmd_upload_end"} /\ ~b.is_uploading)
                => /\ Status(c) = RESP_ERROR
                   /\ c.dev.upload_buffer = b.upload_buffer
                   /\ c.dev.upload_name = b.upload_name
                   /\ c.dev.is_uploading = b.is_uploading
                   /\ c.dev.models = b.models

\* a Chunk carrying a byte is refused after the End of a session
C7_Witness ==
    /\ calls # << >>
    /\ calls[1].handler = "_cmd_upload_chunk"
    /\ Payload(calls[1]) # << >>
    /\ AfterEnd(prev)
    /\ Status(calls[1]) = RESP_ERROR
(***************************************************************************)
(* Framing                                                                 *)
(***************************************************************************)
\* a packet that holds all 3 + LEN + 4 bytes its length byte declares
Complete(r) == Len(r) >= 3 /\ Len(r) >= 3 + r[3] + 4

\* a complete frame whose trailer is not the CRC32 of OPCODE LEN PAYLOAD
BadTrailer(r) ==
    /\ Len(r) >= 7 /\ r[1] = HEADER /\ Complete(r)
    /\ SubSeq(r, 4 + r[3], 7 + r[3]) # pack_u32(calculate_crc32(SubSeq(r, 2, 3 + r[3])))

\* what a request must not touch unless it is dispatched
Core(d) == << d.circular_buffer, d.baseline, Session(d), d.models, d.framebuffer >>

\* C9: a request frame whose CRC32 trailer differs from the CRC32 of
\* OPCODE LEN PAYLOAD is not dispatched: no handler runs, and the sample buffer,
\* the baseline, the upload session, the model table and the framebuffer are
\* as before
C9_CorruptNotDispatched ==
    [][ \A i \in DOMAIN calls' :
            BadTrailer(calls'[i].request)
                => /\ calls'[i].handler = ""
                   /\ Core(calls'[i].dev) = Core(IF i = 1 THEN dev ELSE calls'[i - 1].dev)
      ]_vars

\* a BufferWrite with a flipped bit is refused by a device that holds a sample
\* and an active upload session
C9_Witness ==
    /\ calls # << >>
    /\ BadTrailer(calls[1].request)
    /\ calls[1].request[2] = CMD_BUFFER_WRITE
    /\ calls[1].handler = ""
    /\ Status(calls[1]) = RESP_ERROR
    /\ dev.is_uploading
    /\ dev.circular_buffer # << >>

\* C10: a handler is invoked only on a packet that holds all 3 + LEN + 4 bytes:
\* the serial server hands process_packet complete packets only, and
\* process_packet rejects a packet shorter than its declared length without any
\* change of the device
C10_NoPartialDispatch ==
    [][ \A i \in DOMAIN calls' :
            LET c == calls'[i]
                b == IF i = 1 THEN dev ELSE calls'[i - 1].dev
            IN  /\ c.handler # "" => Complete(c.request)
                /\ mode' = "serial" => Complete(c.request)
                /\ ~Complete(c.request) => (c.handler = "" /\ c.dev = b)
      ]_vars

\* the server holds the first 7 bytes of an 8-byte frame and has dispatched nothing
C10_Witness ==
    /\ mode = "serial"
    /\ Len(buffer) = 7
    /\ ~Complete(buffer)
    /\ calls = << >>
    /\ tx = << >>

(***************************************************************************)
(* Resynchronisation of the serial server                                  *)
(***************************************************************************)
\* the bytes the server holds after the read of a step: its buffer and the bytes
\* the read took off the wire
AtHand == buffer \o SubSeq(wire, 1, Len(wire) - Len(wire'))

\* C11: a byte at the head of the receive buffer that is not the marker is
\* discarded alone: the bytes behind it are kept and scanned, so that a
\* well-formed frame behind noise in the same data is processed and answered
C11_GarbageThenFrameAnswered ==
    [][ (mode = "serial" /\ Len(wire') < Len(wire))
            => /\ (AtHand[1] # HEADER)
                      => LET r == ServePackets(dev, Tail(AtHand), << >>)
                         IN  /\ calls' = r.calls
                             /\ buffer' = r.buffer
               /\ \A g \in NoiseBytes : \A f \in SerialFrames :
                      AtHand = g \o f
                          => /\ calls' # << >>
                             /\ calls'[1].request = f
                             /\ tx' = tx \o << calls'[1].response >>
      ]_vars

(***************************************************************************)
(* Host and device framing                                                 *)
(***************************************************************************)
\* process_packet takes data as a whole frame whose integrity check passes
Accepted(data) ==
    /\ Len(data) >= 7 /\ data[1] = HEADER /\ Complete(data)
    /\ ~CrcMismatch(data, data[3])

\* C12: every request frame the host writes is AA OPCODE LEN PAYLOAD CRC32, the
\* CRC32 little-endian over OPCODE LEN PAYLOAD, and passes the integrity check
\* of process_packet
C12_HostFrameIsCrcFrame ==
    ret.method # ""
        => /\ ret.packet = make_packet(ret.cmd, ret.payload)
           /\ Accepted(ret.packet)

\* a stream that holds a whole response frame: the marker, 4 + LEN + 4 bytes, and
\* a trailer equal to the CRC32 of OPCODE STATUS LEN DATA
WholeVerified(stream) ==
    /\ Len(stream) >= 8
    /\ stream[1] = SPRITE_HEADER
    /\ Len(stream) >= 8 + stream[4]
    /\ SubSeq(stream, 5 + stream[4], 8 + stream[4])
           = pack_u32(calculate_crc32(SubSeq(stream, 2, 4 + stream[4])))

\* C13: the frame _make_response builds from a status and data of 0..255 bytes
\* has LEN = len(data) and the CRC32 of OPCODE STATUS LEN DATA as its trailer,
\* and _send_command decodes it to that status and that data
C13_ResponseRoundTrip ==
    (ret.method # "" /\ loaded.damage = "none")
        => /\ loaded.stream[4] = Len(loaded.data)
           /\ Len(loaded.stream) = 8 + Len(loaded.data)
           /\ SubSeq(loaded.stream, Len(loaded.stream) - 3, Len(loaded.stream))
                  = pack_u32(calculate_crc32(
                        << loaded.cmd, loaded.status, Len(loaded.data) >> \o loaded.data))
           /\ ret.out.raised = ""
           /\ ret.out.status = loaded.status
           /\ ret.out.data = loaded.data

\* a BUSY response with 255 bytes of data has come back whole
C13_Witness ==
    /\ ret.method # ""
    /\ loaded.damage = "none"
    /\ loaded.status = RESP_BUSY
    /\ Len(loaded.data) = 255
    /\ ret.out.raised = ""
    /\ Len(ret.out.data) = 255

\* C14: _send_command returns a status and data only when it has read the
\* marker, all 4 + LEN + 4 bytes and a trailer equal to the CRC32 of
\* OPCODE STATUS LEN DATA, and what it returns are the status and the data of
\* that frame; otherwise it raises SpriteOneError and returns nothing
C14_ReturnsOnlyVerified ==
    ret.method # ""
        => /\ (ret.out.raised = "") <=> WholeVerified(loaded.stream)
           /\ (ret.out.raised = "")
                  => /\ ret.out.status = loaded.stream[3]
                     /\ ret.out.data = SubSeq(loaded.stream, 5, 4 + loaded.stream[4])
           /\ (ret.out.raised # "")
                  => /\ ret.out.status = -1
                     /\ ret.out.data = << >>
                     /\ ret.api.raised = ret.out.raised

\* a response with data whose trailer has one bit flipped has been refused
C14_Witness ==
    /\ ret.method # ""
    /\ loaded.damage = "flipped trailer"
    /\ loaded.data # << >>
    /\ ret.out.raised = "CRC mismatch!"

\* C15: the response _send_command returns for a command carries that
\* command's opcode
C15_ResponseMatchesCommand ==
    (ret.method # "" /\ ret.pc = "idle" /\ ret.out.raised = "")
        => ret.out.resp_cmd = ret.cmd

\* the bytes of response data the result of a method is read from
Needs(name) ==
    CASE name = "get_version"   -> 3
      [] name = "ai_train"      -> 4
      [] name = "ai_status"     -> 8
      [] name = "finetune_data" -> 4

\* C16: a method whose verified OK response carries fewer bytes than its result
\* needs fails with SpriteOneError
C16_NoDefaultValue ==
    (/\ ret.method # "" /\ ret.pc = "idle"
     /\ ret.out.raised = ""
     /\ ret.out.status = RESP_OK
     /\ Len(ret.out.data) < Needs(ret.method))
        => ret.api.raised # ""

(***************************************************************************)
(* Unknown opcodes                                                         *)
(***************************************************************************)
\* a frame that passes the checks of process_packet and whose opcode has no
\* handler
UnknownRequest(r) ==
    Len(r) >= 7 /\ r[2] \notin DOMAIN command_handlers /\ Accepted(r)

\* the next well-formed request is answered, and leaves the device, the same
\* from d1 as from d2
SameOutcome(c1, c2) ==
    c1.handler = c2.handler /\ c1.response = c2.response /\ c1.dev = c2.dev

SameForNextRequest(d1, d2) ==
    \A r \in Requests(d2) :
        SameOutcome(process_packet(d1, make_packet(r[1], r[2])),
                    process_packet(d2, make_packet(r[1], r[2])))

\* C17 as stated: a request with an unknown opcode is answered ERROR with an
\* empty payload and changes no device state
C17_UnknownChangesNothing ==
    [][ \A i \in DOMAIN calls' :
            LET c == calls'[i]
                b == IF i = 1 THEN dev ELSE calls'[i - 1].dev
            IN  UnknownRequest(c.request)
                    => /\ Status(c) = RESP_ERROR
                       /\ c.response[4] = 0
                       /\ c.dev = b
      ]_vars

\* C17: a request with an unknown opcode is answered ERROR with an empty
\* payload, runs no handler, changes nothing of the device but current_cmd, the
\* opcode kept for building responses, and the next well-formed request is
\* dispatched and answered as if the unknown one had not been sent
C17_UnknownOpcodeIsError ==
    [][ \A i \in DOMAIN calls' :
            LET c == calls'[i]
                b == IF i = 1 THEN dev ELSE calls'[i - 1].dev
            IN  UnknownRequest(c.request)
                    => /\ c.handler = ""
                       /\ Status(c) = RESP_ERROR
                       /\ c.response[4] = 0
                       /\ Len(c.response) = 8
                       /\ c.dev = [b EXCEPT !.current_cmd = c.request[2]]
                       /\ SameForNextRequest(c.dev, b)
      ]_vars

\* an unknown opcode has been refused by a device that holds a sample and an
\* active upload session with a byte in it
C17_Witness ==
    /\ calls # << >>
    /\ UnknownRequest(calls[1].request)
    /\ Status(calls[1]) = RESP_ERROR
    /\ dev.is_uploading
    /\ dev.upload_buffer # << >>
    /\ dev.circular_buffer # << >>

(***************************************************************************)
(* Handlers and exceptions                                                 *)
(***************************************************************************)
\* process_packet came back with a response frame
IsFrame(resp) == DOMAIN resp # {"exception"}

\* C18: process_packet answers every request that passes its integrity check
\* with a response frame that carries a status and at most 255 bytes of data,
\* and raises no exception
C18_HandlersNeverRaise ==
    \A i \in DOMAIN calls :
        Accepted(calls[i].request)
            => /\ IsFrame(calls[i].response)
               /\ Len(calls[i].response) <= 8 + 255
               /\ calls[i].response[4] = Len(calls[i].response) - 8

(***************************************************************************)
(* Batch requests                                                          *)
(***************************************************************************)
\* the sub-records of a batch payload, left to right, up to the first one that
\* is cut short or declares more bytes than remain
RECURSIVE SubRecords(_)
SubRecords(p) ==
    IF Len(p) < 2 \/ Len(p) < 2 + p[2] THEN << >>
    ELSE << [op |-> p[1], payload |-> SubSeq(p, 3, 2 + p[2])] >>
             \o SubRecords(SubSeq(p, 3 + p[2], Len(p)))

\* the bytes of a batch payload that follow its well-formed sub-records
RECURSIVE BatchRest(_)
BatchRest(p) ==
    IF Len(p) < 2 \/ Len(p) < 2 + p[2] THEN p
    ELSE BatchRest(SubSeq(p, 3 + p[2], Len(p)))

\* the device after each of these sub-records was sent as a request of its own
RECURSIVE DispatchEach(_, _)
DispatchEach(d, recs) ==
    IF recs = << >> THEN d
    ELSE DispatchEach(process_packet(d, make_packet(Head(recs).op, Head(recs).payload)).dev,
                      Tail(recs))

\* the payload of an accepted batch request
BatchPayload(data) == SubSeq(data, 4, 3 + data[3])

IsBatch(data) == Accepted(data) /\ data[2] = CMD_BATCH

\* C19: after a batch request the sample buffer, the baseline, the upload
\* session, the model table and the framebuffer are what they are after each
\* well-formed sub-record of the batch, left to right, was dispatched as a
\* request of its own
C19_BatchRunsSubRecords ==
    \A i \in DOMAIN calls :
        IsBatch(calls[i].request)
            => Core(dev) = Core(DispatchEach(prev, SubRecords(BatchPayload(calls[i].request))))

\* a batch of one valid sub-record followed by one that declares more bytes than
\* the payload has left
OneThenOverlong(data) ==
    /\ IsBatch(data)
    /\ Len(SubRecords(BatchPayload(data))) = 1
    /\ Len(BatchRest(BatchPayload(data))) >= 2

\* C20: a batch of a valid sub-record followed by an overlong one leaves the
\* device as the first sub-record alone leaves it, and is answered with one
\* response frame of status OK or ERROR, no exception being raised
C20_TruncatedBatchRunsFirstOnly ==
    \A i \in DOMAIN calls :
        OneThenOverlong(calls[i].request)
            => /\ Core(dev) = Core(DispatchEach(prev,
                      << Head(SubRecords(BatchPayload(calls[i].request))) >>))
               /\ IsFrame(calls[i].response)
               /\ Len(calls[i].response) = 8 + calls[i].response[4]
               /\ Status(calls[i]) \in {RESP_OK, RESP_ERROR}
               /\ Len(calls) = 1

(***************************************************************************)
(* The sample buffer                                                       *)
(***************************************************************************)
\* the last n elements of s, or all of s when it has fewer
LastOf(s, n) == IF Len(s) <= n THEN s ELSE SubSeq(s, Len(s) - n + 1, Len(s))

\* C21: the sample buffer never holds more than 60 samples, and after k accepted
\* writes it holds the last min(k, 60) values written, oldest first
C21_BufferKeepsLast60 ==
    /\ Len(dev.circular_buffer) <= 60
    /\ dev.circular_buffer = LastOf(sent, 60)

\* 61 distinct values were written and the buffer holds the last 60 of them
C21_Witness ==
    /\ Len(sent) = 61
    /\ Len(dev.circular_buffer) = 60
    /\ dev.circular_buffer[1] = Rat(2, 1)
    /\ dev.circular_buffer[60] = Rat(61, 1)

\* a BufferWrite payload that holds no finite 32-bit float: fewer than 4 bytes,
\* or an exponent field of all ones (NaN, +inf, -inf)
NoFiniteSample(p) == Len(p) < 4 \/ (p[4] % 128 = 127 /\ p[3] >= 128)

IsWrite(c) == Accepted(c.request) /\ c.request[2] = CMD_BUFFER_WRITE

\* C22: a BufferWrite of NaN, +inf or -inf, or of fewer than 4 bytes, is answered
\* with ERROR and leaves the sample buffer as it was; every sample in the buffer
\* is finite
C22_NonFiniteRejected ==
    /\ \A i \in DOMAIN calls :
           IsWrite(calls[i]) /\ NoFiniteSample(Payload(calls[i]))
               => /\ Status(calls[i]) = RESP_ERROR
                  /\ calls[i].response[4] = 0
                  /\ calls[i].dev.circular_buffer = Before(i).circular_buffer
    /\ \A k \in DOMAIN dev.circular_buffer : isfinite(dev.circular_buffer[k])

\* a write of -inf was rejected on a full buffer
C22_Witness ==
    /\ Len(calls) = 1
    /\ IsWrite(calls[1])
    /\ Payload(calls[1]) = <<0, 0, 128, 255>>
    /\ Status(calls[1]) = RESP_ERROR
    /\ Len(prev.circular_buffer) = 60
    /\ dev.circular_buffer = prev.circular_buffer

IsSnapshot(c) == Accepted(c.request) /\ c.request[2] = CMD_BUFFER_SNAPSHOT

\* the data of a response frame
ResponseData(c) == SubSeq(c.response, 5, 4 + c.response[4])

\* C23: BufferSnapshot is answered with OK and the buffered samples in insertion
\* order, 4 bytes a sample and nothing else (no data for an empty buffer), and
\* leaves the buffer as it was
C23_SnapshotReturnsBuffer ==
    \A i \in DOMAIN calls :
        IsSnapshot(calls[i])
            => /\ Status(calls[i]) = RESP_OK
               /\ calls[i].response[4] = 4 * Len(Before(i).circular_buffer)
               /\ Len(calls[i].response) = 8 + 4 * Len(Before(i).circular_buffer)
               /\ \A k \in DOMAIN Before(i).circular_buffer :
                      unpack_f32(SubSeq(ResponseData(calls[i]), 4 * k - 3, 4 * k))
                          = Before(i).circular_buffer[k]
               /\ calls[i].dev.circular_buffer = Before(i).circular_buffer

\* a snapshot of a full buffer that has evicted its first sample
C23_Witness ==
    /\ Len(calls) = 1
    /\ IsSnapshot(calls[1])
    /\ calls[1].response[4] = 240
    /\ dev.circular_buffer[1] = Rat(2, 1)
    /\ SubSeq(ResponseData(calls[1]), 1, 4) = <<0, 0, 0, 64>>

(***************************************************************************)
(* The baseline                                                            *)
(***************************************************************************)
IsCapture(c) == Accepted(c.request) /\ c.request[2] = CMD_BASELINE_CAPTURE

\* the arithmetic mean of a non-empty list of samples
MeanOf(samples) == RatDivInt(SumRat(samples), Len(samples))

\* C24 as stated: a BaselineCapture on an empty buffer is answered with ERROR
\* and leaves the baseline as it was; on a non-empty buffer it sets the baseline
\* to the arithmetic mean of the buffered samples and returns that same value
C24_CaptureReturnsBaseline ==
    \A i \in DOMAIN calls :
        IsCapture(calls[i])
            => IF Before(i).circular_buffer = << >>
               THEN /\ Status(calls[i]) = RESP_ERROR
                    /\ calls[i].dev.baseline = Before(i).baseline
               ELSE /\ Status(calls[i]) = RESP_OK
                    /\ calls[i].dev.baseline = MeanOf(Before(i).circular_buffer)
                    /\ calls[i].response[4] = 4
                    /\ unpack_f32(ResponseData(calls[i])) = calls[i].dev.baseline

\* x and y differ by no more than the rounding of y to a 32-bit float: 2^-24 of
\* the magnitude of y
WithinFloat32Rounding(x, y) ==
    RatLeq(RatMul(RatAbs(RatSub(x, y)), Rat(16777216, 1)), RatAbs(y))

\* C24 amended: a BaselineCapture on an empty buffer is answered with ERROR and
\* leaves the baseline as it was; on a non-empty buffer it sets the baseline to
\* the arithmetic mean of the buffered samples and returns that mean rounded to
\* a 32-bit float
C24_CaptureReturnsRoundedBaseline ==
    \A i \in DOMAIN calls :
        IsCapture(calls[i])
            => IF Before(i).circular_buffer = << >>
               THEN /\ Status(calls[i]) = RESP_ERROR
                    /\ calls[i].response[4] = 0
                    /\ calls[i].dev.baseline = Before(i).baseline
               ELSE /\ Status(calls[i]) = RESP_OK
                    /\ calls[i].dev.baseline = MeanOf(Before(i).circular_buffer)
                    /\ calls[i].response[4] = 4
                    /\ WithinFloat32Rounding(unpack_f32(ResponseData(calls[i])),
                                             calls[i].dev.baseline)

\* the baseline captured is 16777217.0 and the value returned is 16777216.0
C24_Witness ==
    /\ Len(calls) = 1
    /\ IsCapture(calls[1])
    /\ Status(calls[1]) = RESP_OK
    /\ dev.baseline = Rat(16777217, 1)
    /\ unpack_f32(ResponseData(calls[1])) = Rat(16777216, 1)

IsGetDelta(c) == Accepted(c.request) /\ c.request[2] = CMD_GET_DELTA

\* C25: a GetDelta that follows a successful BaselineCapture, with no request
\* in between, is answered with OK and a delta of exactly 0
C25_DeltaAfterCaptureIsZero ==
    [][ ( /\ Len(calls) = 1 /\ IsCapture(calls[1]) /\ Status(calls[1]) = RESP_OK
          /\ Len(calls') = 1 /\ IsGetDelta(calls'[1]) )
        => /\ Status(calls'[1]) = RESP_OK
           /\ ResponseData(calls'[1]) = <<0, 0, 0, 0>> ]_vars

\* a delta of 0 was returned against the baseline 16777217.0, captured from a
\* full buffer of 16777216.0 and 16777218.0
C25_Witness ==
    /\ Len(calls) = 1
    /\ IsGetDelta(calls[1])
    /\ Status(calls[1]) = RESP_OK
    /\ ResponseData(calls[1]) = <<0, 0, 0, 0>>
    /\ dev.baseline = Rat(16777217, 1)
    /\ MeanOf(dev.circular_buffer) = dev.baseline

IsReset(c) == Accepted(c.request) /\ c.request[2] = CMD_BASELINE_RESET

\* C26: BaselineReset is answered with OK and leaves the baseline unset; while
\* the baseline is unset a GetDelta is answered with ERROR and no payload, and
\* the baseline stays unset until a BaselineCapture is answered with OK,
\* whatever is written to the buffer
C26_ResetUnsetsBaseline ==
    [][ Len(calls') = 1 =>
          /\ IsReset(calls'[1])
                => /\ Status(calls'[1]) = RESP_OK
                   /\ calls'[1].response[4] = 0
                   /\ dev'.baseline = None
          /\ dev.baseline = None /\ IsGetDelta(calls'[1])
                => /\ Status(calls'[1]) = RESP_ERROR
                   /\ calls'[1].response[4] = 0
          /\ dev.baseline = None /\ ~(IsCapture(calls'[1]) /\ Status(calls'[1]) = RESP_OK)
                => dev'.baseline = None ]_vars

\* a reset has cleared a captured baseline, the buffer holding samples
C26_Witness ==
    /\ Len(calls) = 1
    /\ IsReset(calls[1])
    /\ Status(calls[1]) = RESP_OK
    /\ prev.baseline # None
    /\ dev.baseline = None
    /\ dev.circular_buffer # << >>

\* C27: the baseline changes only by a BaselineCapture answered with OK and by
\* a BaselineReset: a BufferWrite, evicting or not, a BufferSnapshot, a GetDelta
\* and a Correlate leave it as it was
C27_BaselineNotRecomputed ==
    [][ Len(calls') = 1 =>
          /\ dev'.baseline # dev.baseline
                => \/ IsCapture(calls'[1]) /\ Status(calls'[1]) = RESP_OK
                   \/ IsReset(calls'[1])
          /\ calls'[1].handler \in { "_cmd_buffer_write", "_cmd_buffer_snapshot",
                                     "_cmd_get_delta", "_cmd_correlate" }
                => dev'.baseline = dev.baseline ]_vars

\* a write has evicted the oldest sample under a captured baseline
C27_Witness ==
    /\ Len(calls) = 1
    /\ IsWrite(calls[1])
    /\ Status(calls[1]) = RESP_OK
    /\ Len(prev.circular_buffer) = 60
    /\ dev.circular_buffer[1] # prev.circular_buffer[1]
    /\ prev.baseline # None
    /\ dev.baseline = prev.baseline

(***************************************************************************)
(* The identity handshake                                                  *)
(***************************************************************************)
IsPing(c) == Accepted(c.request) /\ c.request[2] = CMD_PING_ID

\* C28: the verify request is answered with OK if its payload is the 8-byte
\* identity of the device and with ERROR for every other payload, shorter or
\* longer, and changes nothing on the device
C28_VerifyIffIdentity ==
    \A i \in DOMAIN calls :
        IsPing(calls[i])
            => /\ Status(calls[i]) =
                      IF Payload(calls[i]) = Before(i).device_id THEN RESP_OK ELSE RESP_ERROR
               /\ calls[i].response[4] = 0
               /\ Core(calls[i].dev) = Core(Before(i))
               /\ calls[i].dev.device_id = Before(i).device_id

(***************************************************************************)
(* Correlation                                                             *)
(***************************************************************************)
IsCorrelate(c) == Accepted(c.request) /\ c.request[2] = CMD_CORRELATE

\* C29: Correlate is answered with ERROR and no payload when the sample buffer
\* is empty or the payload has fewer than 4 bytes, and with OK and one score of
\* 4 bytes otherwise; the buffer and the baseline are as before in both cases
C29_CorrelateErrors ==
    \A i \in DOMAIN calls :
        IsCorrelate(calls[i])
            => /\ IsFrame(calls[i].response)
               /\ IF Before(i).circular_buffer = << >> \/ Len(Payload(calls[i])) < 4
                  THEN Status(calls[i]) = RESP_ERROR /\ calls[i].response[4] = 0
                  ELSE Status(calls[i]) = RESP_OK /\ calls[i].response[4] = 4
               /\ calls[i].dev.circular_buffer = Before(i).circular_buffer
               /\ calls[i].dev.baseline = Before(i).baseline

\* a reference of one sample and 2 more bytes was scored against two samples
\* under a captured baseline
C29_Witness ==
    /\ Len(calls) = 1
    /\ IsCorrelate(calls[1])
    /\ Payload(calls[1]) = <<0, 0, 128, 63, 0, 0>>
    /\ Status(calls[1]) = RESP_OK
    /\ Len(dev.circular_buffer) = 2
    /\ dev.baseline # None

\* the samples of a Correlate payload
ReferenceOf(p) == [k \in 1..(Len(p) \div 4) |-> unpack_f32(SubSeq(p, 4 * k - 3, 4 * k))]

\* the first n elements of s are one and the same finite value
Flat(s, n) == \A k \in 1..n : isfinite(s[k]) /\ s[k] = s[1]

MinLen(s, t) == IF Len(s) <= Len(t) THEN Len(s) ELSE Len(t)

\* C30: Correlate returns exactly 1.0 when the buffer or the reference has zero
\* variance over the first n = min(buffer_len, reference_len) samples, n = 1
\* included, and no Correlate ends in a division by zero
C30_FlatScoresOne ==
    \A i \in DOMAIN calls :
        IsCorrelate(calls[i])
            => /\ IsFrame(calls[i].response)
               /\ ( /\ Before(i).circular_buffer # << >>
                    /\ Len(Payload(calls[i])) >= 4
                    /\ \/ Flat(Before(i).circular_buffer,
                               MinLen(Before(i).circular_buffer, ReferenceOf(Payload(calls[i]))))
                       \/ Flat(ReferenceOf(Payload(calls[i])),
                               MinLen(Before(i).circular_buffer, ReferenceOf(Payload(calls[i])))) )
                  => /\ Status(calls[i]) = RESP_OK
                     /\ ResponseData(calls[i]) = <<0, 0, 128, 63>>

\* the reference (3.0, 3.0) was scored 1.0 against the samples 1.0 and 2.0
C30_Witness ==
    /\ Len(calls) = 1
    /\ IsCorrelate(calls[1])
    /\ Payload(calls[1]) = <<0, 0, 64, 64, 0, 0, 64, 64>>
    /\ prev.circular_buffer = << Rat(1, 1), Rat(2, 1) >>
    /\ Status(calls[1]) = RESP_OK
    /\ ResponseData(calls[1]) = <<0, 0, 128, 63>>

\* the score of an answered Correlate
ScoreOf(c) == unpack_f32(ResponseData(c))

\* C31 as stated: for every non-empty buffer, Correlate against a reference
\* identical to the buffer scores at least 0.99 and Correlate against the
\* pointwise negation of the buffer scores at most 0.05
C31_SelfHighInvertedLow ==
    \A i \in DOMAIN calls :
        (IsCorrelate(calls[i]) /\ Before(i).circular_buffer # << >>)
            => /\ Payload(calls[i]) = pack_floats(Before(i).circular_buffer)
                  => /\ Status(calls[i]) = RESP_OK
                     /\ RatLeq(Rat(99, 100), ScoreOf(calls[i]))
               /\ Payload(calls[i]) = pack_floats(Negated(Before(i).circular_buffer))
                  => /\ Status(calls[i]) = RESP_OK
                     /\ RatLeq(ScoreOf(calls[i]), Rat(5, 100))

\* C31: for every non-empty buffer, Correlate against a reference identical to
\* the buffer scores at least 0.99; Correlate against the pointwise negation of
\* the buffer scores at most 0.05 when the buffered samples are not all equal,
\* and exactly 1.0 when they are (a buffer of one sample included)
C31_SelfHighInvertedLowUnlessFlat ==
    \A i \in DOMAIN calls :
        (IsCorrelate(calls[i]) /\ Before(i).circular_buffer # << >>)
            => /\ Payload(calls[i]) = pack_floats(Before(i).circular_buffer)
                  => /\ Status(calls[i]) = RESP_OK
                     /\ RatLeq(Rat(99, 100), ScoreOf(calls[i]))
               /\ Payload(calls[i]) = pack_floats(Negated(Before(i).circular_buffer))
                  => /\ Status(calls[i]) = RESP_OK
                     /\ IF Flat(Before(i).circular_buffer, Len(Before(i).circular_buffer))
                        THEN ScoreOf(calls[i]) = Rat(1, 1)
                        ELSE RatLeq(ScoreOf(calls[i]), Rat(5, 100))

\* the samples 1.0 and 2.0 were scored against -1.0 and -2.0
C31_Witness ==
    /\ Len(calls) = 1
    /\ IsCorrelate(calls[1])
    /\ prev.circular_buffer = << Rat(1, 1), Rat(2, 1) >>
    /\ Payload(calls[1]) = pack_floats(Negated(prev.circular_buffer))
    /\ Status(calls[1]) = RESP_OK
    /\ ScoreOf(calls[1]) = Rat(0, 1)

(***************************************************************************)
(* Responses                                                               *)
(***************************************************************************)
\* C32: every response the device emits is AA OPCODE STATUS LEN DATA CRC32 with
\* one status byte in {0, 1, 2, 3}, and a response whose status is not OK has
\* LEN = 0 and no data bytes
C32_ErrorsCarryNoData ==
    \A i \in DOMAIN calls :
        IsFrame(calls[i].response)
            => /\ Status(calls[i]) \in {RESP_OK, RESP_ERROR, RESP_NOT_FOUND, RESP_BUSY}
               /\ Len(calls[i].response) = 4 + calls[i].response[4] + 4
               /\ Status(calls[i]) # RESP_OK
                    => /\ calls[i].response[4] = 0
                       /\ Len(calls[i].response) = 8

\* an inference on 4 bytes was answered with ERROR by its handler
C32_Witness ==
    /\ Len(calls) = 1
    /\ calls[1].handler = "_cmd_ai_infer"
    /\ IsFrame(calls[1].response)
    /\ Status(calls[1]) = RESP_ERROR
    /\ calls[1].response[4] = 0

(***************************************************************************)
(* Ownership of the sample buffer and the baseline                         *)
(***************************************************************************)
\* the call ran the handler of BufferWrite, BaselineCapture or BaselineReset
IsTelemetryWrite(c) ==
    /\ Accepted(c.request)
    /\ c.request[2] \in {CMD_BUFFER_WRITE, CMD_BASELINE_CAPTURE, CMD_BASELINE_RESET}

\* C38: the sample buffer and the baseline are changed only by BufferWrite,
\* BaselineCapture and BaselineReset; every other request, of a known or an
\* unknown opcode, and every packet rejected before dispatch leaves both as
\* they were
C38_OnlyTelemetryWrites ==
    [][ (Len(calls') = 1 /\ ~IsTelemetryWrite(calls'[1]))
            => /\ dev'.circular_buffer = dev.circular_buffer
               /\ dev'.baseline = dev.baseline ]_vars

\* an upload was completed and its model stored on a device that holds a sample
\* and a baseline
C38_Witness ==
    /\ Len(calls) = 1
    /\ calls[1].handler = "_cmd_upload_end"
    /\ Status(calls[1]) = RESP_OK
    /\ Len(dev.models) = 3
    /\ dev.circular_buffer = << Rat(1, 1) >>
    /\ dev.baseline = Rat(1, 1)

(***************************************************************************)
(* The opcode of a response                                                *)
(***************************************************************************)
\* C39: every response returned by process_packet carries in its opcode byte
\* the opcode of the packet being answered, also when the packet is rejected as
\* too short, as having a wrong marker, or as incomplete for its declared length
C39_ResponseEchoesOpcode ==
    \A i \in DOMAIN calls :
        (IsFrame(calls[i].response) /\ Len(calls[i].request) >= 2)
            => calls[i].response[2] = calls[i].request[2]

(***************************************************************************)
(* model_upload of the host library                                        *)
(***************************************************************************)
\* C33: every frame the host has written has LEN equal to the size of its
\* payload, at most 255 bytes with the offset header, and no call of
\* model_upload ends in an error of the encoding of a frame
C33_UploadNeverFailsEncoding ==
    /\ \A k \in DOMAIN sent :
            /\ sent[k][3] = Len(sent[k]) - 4
            /\ Len(sent[k]) - 4 <= 255
    /\ (ret.method = "model_upload" /\ ret.pc = "idle")
            => ret.api.raised # "ValueError"

\* C34: a call of model_upload that returned True has written one Start frame
\* carrying the name, then the bytes of the blob in order in frames under the
\* Chunk opcode, then one End frame carrying the CRC32 of the blob
C34_DrivesThreeOpcodeSession ==
    (ret.method = "model_upload" /\ ret.pc = "idle" /\ ret.api.raised = "")
        => /\ Len(sent) >= 2
           /\ sent[1][2] = CMD_MODEL_UPLOAD
           /\ SubSeq(sent[1], 4, Len(sent[1]) - 1) = ret.filename
           /\ \A k \in 2..(Len(sent) - 1) : sent[k][2] = CMD_UPLOAD_CHUNK
           /\ Flatten([k \in 1..(Len(sent) - 2) |->
                          SubSeq(sent[k + 1], 4, Len(sent[k + 1]) - 1)]) = ret.data
           /\ sent[Len(sent)][2] = CMD_UPLOAD_END
           /\ SubSeq(sent[Len(sent)], 4, 7) = pack_u32(calculate_crc32(ret.data))

(***************************************************************************)
(* Streams of requests through the serial server                           *)
(***************************************************************************)
\* what was written is a whole frame, trailer included
WholeFrame(f) == Len(f) >= 3 /\ Len(f) = 3 + f[3] + 4

\* the calls of process_packet on the frames one after another, each on the
\* device the one before it left
RECURSIVE InOrder(_, _, _)
InOrder(d, frames, served) ==
    IF frames = << >> THEN served
    ELSE InOrder(process_packet(d, Head(frames)).dev, Tail(frames),
                 Append(served, process_packet(d, Head(frames))))

\* the responses written are those of the frames, one each and in their order
AnsweredInOrder(frames) ==
    /\ Len(tx) = Len(frames)
    /\ \A k \in DOMAIN tx : tx[k] = InOrder(prev, frames, << >>)[k].response

\* C35: once the server has read a stream of well-formed request frames, in
\* reads of any sizes, it has written one response per frame, in the order of
\* the requests, each the response of its frame on the device the frames
\* before it left
C35_OneResponsePerFrame ==
    (wire = << >> /\ \A k \in DOMAIN sent : WholeFrame(sent[k]))
        => AnsweredInOrder(sent)

\* C36: after a request cut short behind its length byte, the whole requests
\* written later are each decoded as their own frame and answered with their
\* own response
C36_LaterRequestAnswered ==
    (/\ wire = << >>
     /\ sent # << >>
     /\ ~WholeFrame(sent[1])
     /\ \A k \in 2..Len(sent) : WholeFrame(sent[k]))
        => AnsweredInOrder(Tail(sent))

(***************************************************************************)
(* One request per call of _send_command                                   *)
(***************************************************************************)
\* C37: a call of _send_command writes one request frame, its own, before it
\* reads anything; while the response is awaited nothing more is written, and
\* the call ends with what its reads gave, a timeout, a wrong marker and a CRC
\* mismatch included, without writing the request again
C37_OneFrameNoRetry ==
    [][ /\ (ret.pc = "idle" /\ ret'.pc = "reading")
            => /\ sent' = Append(sent, send_command_packet(ret'.cmd, ret'.payload))
               /\ rx' = loaded'.stream
        /\ ret.pc = "reading"
            => /\ sent' = sent
               /\ ret'.pc = "idle"
               /\ ret'.out = send_command_read(rx) ]_vars

\* a second call has ended in a CRC mismatch raised to its caller, two
\* packets written in all
C37_Witness ==
    /\ Len(sent) = 2
    /\ ret.pc = "idle"
    /\ ret.out.raised = "CRC mismatch!"
    /\ loaded.damage = "flipped trailer"
    /\ sent[2] = ret.packet

(***************************************************************************)
(* The one-byte trailer of the host's requests                             *)
(***************************************************************************)
\* C40: _checksum is the two's complement of the sum of the payload: the sum
\* of the payload bytes plus the checksum is 0 modulo 256, the checksum is a
\* byte, and the checksum of the empty payload is 0
C40_ChecksumIsTwosComplement ==
    ret.method = "_checksum"
        => /\ (SumBytes(ret.payload) + ret.out) % 256 = 0
           /\ ret.out \in 0..255
           /\ ret.payload = << >> => ret.out = 0

\* the checksum of 255 255 255, of sum 765, is 3
C40_Witness ==
    /\ ret.method = "_checksum"
    /\ ret.payload = << 255, 255, 255 >>
    /\ ret.out = 3
====
